---- MODULE Spec2Model ----
(***************************************************************************)
(* A model of the FISHDA water-quality dashboard: the page-load access     *)
(* gate (authguard.js), the threshold classifier and the alert lifecycle   *)
(* engine (alerts.js).                                                     *)
(*                                                                         *)
(* Paths are sequences of their "/"-separated segments: "/html/about.html" *)
(* is <<"html", "about.html">> and "/" is <<"">>.  Every pattern the code  *)
(* matches with String.endsWith starts with "/", so a path ends with a     *)
(* pattern exactly when its segments end with the pattern's segments.      *)
(*                                                                         *)
(* Sensor values are integers counting hundredths (0.01), the epsilon of   *)
(* checkIfValuesChanged, so Math.abs(nv - ov) > 0.01 is |nv - ov| > 1.     *)
(***************************************************************************)
EXTENDS Integers, Sequences, FiniteSets, TLC

VARIABLES
    \* ---- access gate (authguard.js) ----
    userSession,      \* localStorage['userSession']
    currentPage,      \* window.location.pathname
    href,             \* the path last assigned to window.location.href
    gatePc,           \* "load" | "allowed" | "redirected"
    \* ---- classifier under test (alerts.js checkThresholds, one parameter) ----
    clsT,             \* a Threshold Record
    clsV,             \* a sensor value
    clsOut,           \* "none" before the call, then the class
    \* ---- alert lifecycle engine (alerts.js) ----
    thresholds,       \* the thresholds object loadThresholds read
    active,           \* the store alerts/active: push key -> record
    history,          \* the store alerts/history, in write order
    activeAlerts,     \* the page's list of active alerts
    initialLoadDone,  \* setupActiveAlertsListeners' flag
    feed,             \* change-feed events of alerts/active not yet delivered
    outbox,           \* store writes issued and not yet completed
    sensorData,       \* the reading the sensors subscription delivered last
    lastCheckTime,    \* setupRealtimeAlertListeners' lastCheckTime
    previousReadings, \* setupRealtimeAlertListeners' previousReadings
    checked,          \* number of checkThresholds calls so far
    notified,         \* triggerAlertNotification calls: key -> [set, added]
    errors,           \* the handlers that have called window.alert
    pushed,           \* number of keys alerts/active push() has handed out
    batches,          \* number of acknowledgeAll runs (one Promise.all each)
    rejected,         \* the acknowledgeAll runs whose Promise.all has rejected
    failed,           \* the writes the store has refused: <<operation, key>>
    created,          \* history variable: keys stored at page load or by a completed push().set()
    resolveDue,       \* history variable: critical alerts that were in the store
                      \* when a classified reading found their parameter safe
    \* ---- accounts and the identity provider (login page, dashboard, rolemanager) ----
    userRecord,       \* the User Record users/u1
    authUser,         \* the identity provider's current user
    lastOp,           \* the handler that ran last
    serverState,      \* how a read of users/{uid} ends for getCurrentUserRole
    resolvedRole,     \* what getCurrentUserRole returned, "none" before the call
    \* ---- system configuration page (saveThresholds) ----
    form,             \* the threshold inputs of the form, per sensor
    thresholdsStore,  \* the store `thresholds'
    cfgMsg,           \* the kind of the notification shown last
    \* ---- signup page ----
    accounts,         \* the identity provider's accounts: uid -> [exists, verified]
    currentUser,      \* auth.currentUser: a uid, 0 for null
    tempUser,         \* the page's tempUser: a uid, 0 for null
    localVerified,    \* the emailVerified field of each User object the page holds
    checkInterval,    \* whether the 3-second auto-check timer is set
    signupStep,       \* the part of the page shown: "form" | "verify" | "success" | "leaving"
    tasks,            \* the handlers suspended at an await: name -> [pc, user]
    usersDb,          \* the store `users': uid -> record
    \* ---- WiFi panel of the system configuration page ----
    wifiStore,        \* the store system/wifi as the page's client sees it
    wifiConfirmTimer, \* the SSID the pending confirmation timer was started for, "" for null
    wifiBanner,       \* the state of the connection banner
    wifiForm,         \* the inputs wifiSSID and wifiPassword
    wifiAttempt,      \* history variable: how the connection attempt the last save
                      \* started stands: "none" | "awaiting" | "confirmed"
    \* ---- the sensors subscription of the alerts page, observed ----
    delivered         \* history variable: the snapshot the subscription delivered
                      \* last and the number of deliveries so far

gateVars  == <<userSession, currentPage, href, gatePc>>
clsVars   == <<clsT, clsV, clsOut>>
alertVars == <<thresholds, active, history, activeAlerts, initialLoadDone, feed,
               outbox, sensorData, lastCheckTime, previousReadings, checked,
               notified, errors, pushed, batches, rejected,
               failed, created, resolveDue>>
acctVars  == <<userRecord, authUser, lastOp>>
roleVars  == <<serverState, resolvedRole>>
cfgVars   == <<form, thresholdsStore, cfgMsg>>
signupVars == <<accounts, currentUser, tempUser, localVerified, checkInterval,
                signupStep, tasks, usersDb>>
wifiVars  == <<wifiStore, wifiConfirmTimer, wifiBanner, wifiForm, wifiAttempt>>
subVars   == <<delivered>>
flowVars  == <<signupVars, wifiVars, subVars>>
pageVars  == <<acctVars, roleVars, cfgVars, flowVars>>
vars      == <<gateVars, clsVars, alertVars, pageVars>>

(***************************************************************************)
(* Access gate                                                             *)
(***************************************************************************)

\* String.prototype.endsWith on segment sequences
EndsWith(path, pat) ==
    /\ Len(pat) <= Len(path)
    /\ SubSeq(path, Len(path) - Len(pat) + 1, Len(path)) = pat

IndexPage     == <<"index.html">>
DashboardPage == <<"html", "dashboard.html">>
AboutPage     == <<"html", "about.html">>
AlertsPage    == <<"html", "alerts.html">>
HistoryPage   == <<"html", "history.html">>
ReportsPage   == <<"html", "reports.html">>
ConfigPage    == <<"html", "systemConfig.html">>
AdminPage     == <<"html", "admindashboard.html">>
UsersPage     == <<"html", "user-management.html">>

\* checkAuth's publicPages
publicPages ==
    { IndexPage, <<"html", "signup.html">>, <<"forgot-password.html">>,
      <<"html", "forgotpassword.html">>, <<"">> }

guestAllowedPages == { DashboardPage, AboutPage }

adminOnlyPages == { AdminPage, UsersPage }

\* the href of every NAV_MENU entry, per role
NAV_MENU ==
    [ guest |-> { DashboardPage, AboutPage },
      user  |-> { DashboardPage, AlertsPage, HistoryPage, ReportsPage, AboutPage },
      admin |-> { AdminPage, DashboardPage, AlertsPage, HistoryPage, ReportsPage,
                  ConfigPage, AboutPage } ]

Roles == { "admin", "user", "guest" }

\* The pages a browser may be asked to load: every page the sources name, the
\* same pages under a hosting prefix, and a page no list names.
Pages ==
    publicPages \cup NAV_MENU.admin \cup { UsersPage }
      \cup { <<"baliwamp", "html", "dashboard.html">>,
             <<"baliwamp", "html", "systemConfig.html">>,
             <<"baliwamp", "index.html">>,
             <<"html", "">>,
             <<"html", "profile.html">> }

\* localStorage content: absent, text JSON.parse rejects, or an object.
\* uid "" is a missing uid, role "" a missing role.
NoSession  == [raw |-> "absent",  isGuest |-> FALSE, isLoggedIn |-> FALSE, uid |-> "", role |-> ""]
BadSession == [raw |-> "garbage", isGuest |-> FALSE, isLoggedIn |-> FALSE, uid |-> "", role |-> ""]

SessionObjects ==
    [raw : {"json"}, isGuest : BOOLEAN, isLoggedIn : BOOLEAN,
     uid : {"", "u1"}, role : Roles \cup {""}]

Sessions == { NoSession, BadSession } \cup SessionObjects

\* the Session the sign-in and guest-entry handlers write for role r
SessionOf(r) ==
    [raw |-> "json", isGuest |-> (r = "guest"), isLoggedIn |-> TRUE,
     uid |-> "u1", role |-> r]

Matches(page, pats) == \E pat \in pats : EndsWith(page, pat)

Allow         == [verdict |-> "allowed",    target |-> <<>>,          clear |-> FALSE]
Redirect(p)   == [verdict |-> "redirected", target |-> p,             clear |-> FALSE]
ClearAndLogin == [verdict |-> "redirected", target |-> IndexPage,     clear |-> TRUE]

\* a plausible slip: the authenticated branch grants every page
CheckAuthNoAdminPages(page, s) ==
    IF Matches(page, publicPages) THEN Allow
    ELSE IF s.raw = "absent" THEN Redirect(IndexPage)
    ELSE IF s.raw = "garbage" THEN ClearAndLogin
    ELSE IF s.isGuest THEN
        IF ~Matches(page, guestAllowedPages) THEN Redirect(DashboardPage) ELSE Allow
    ELSE IF s.isLoggedIn /\ s.uid # "" THEN Allow
    ELSE ClearAndLogin

\* a plausible slip: the invalid-session branch redirects and keeps the store
CheckAuthKeepsSession(page, s) ==
    IF Matches(page, publicPages) THEN Allow
    ELSE IF s.raw = "absent" THEN Redirect(IndexPage)
    ELSE IF s.raw = "garbage" THEN ClearAndLogin
    ELSE IF s.isGuest THEN
        IF ~Matches(page, guestAllowedPages) THEN Redirect(DashboardPage) ELSE Allow
    ELSE IF s.isLoggedIn /\ s.uid # "" THEN
        LET userRole == IF s.role = "" THEN "user" ELSE s.role
        IN  IF Matches(page, adminOnlyPages) /\ userRole # "admin"
            THEN Redirect(DashboardPage)
            ELSE Allow
    ELSE Redirect(IndexPage)

\* a plausible slip: the guest branch is taken on the role, not on the flag
CheckAuthGuestByRole(page, s) ==
    IF Matches(page, publicPages) THEN Allow
    ELSE IF s.raw = "absent" THEN Redirect(IndexPage)
    ELSE IF s.raw = "garbage" THEN ClearAndLogin
    ELSE IF s.isGuest \/ s.role = "guest" THEN
        IF ~Matches(page, guestAllowedPages) THEN Redirect(DashboardPage) ELSE Allow
    ELSE IF s.isLoggedIn /\ s.uid # "" THEN
        LET userRole == IF s.role = "" THEN "user" ELSE s.role
        IN  IF Matches(page, adminOnlyPages) /\ userRole # "admin"
            THEN Redirect(DashboardPage)
            ELSE Allow
    ELSE ClearAndLogin

\* checkAuth: what the gate decides for a page and a stored session
CheckAuth(page, s) ==
    IF Matches(page, publicPages) THEN Allow
    ELSE IF s.raw = "absent" THEN Redirect(IndexPage)
    ELSE IF s.raw = "garbage" THEN ClearAndLogin
    ELSE IF s.isGuest THEN
        IF ~Matches(page, guestAllowedPages) THEN Redirect(DashboardPage) ELSE Allow
    ELSE IF s.isLoggedIn /\ s.uid # "" THEN
        LET userRole == IF s.role = "" THEN "user" ELSE s.role
        IN  IF Matches(page, adminOnlyPages) /\ userRole # "admin"
            THEN Redirect(DashboardPage)
            ELSE Allow
    ELSE ClearAndLogin

\* the page-load run of checkAuth
checkAuth ==
    /\ gatePc = "load"
    /\ LET d == CheckAuth(currentPage, userSession)
       IN  /\ gatePc' = d.verdict
           /\ href' = d.target
           /\ userSession' = IF d.clear THEN NoSession ELSE userSession
    /\ lastOp' = "checkAuth"
    /\ UNCHANGED <<currentPage, flowVars, clsVars, alertVars, userRecord, authUser,
                   roleVars, cfgVars>>

\* the browser follows the assignment to window.location.href and loads the page
FollowRedirect ==
    /\ gatePc = "redirected"
    /\ currentPage' = href
    /\ gatePc' = "load"
    /\ lastOp' = "FollowRedirect"
    /\ UNCHANGED <<userSession, href, flowVars, clsVars, alertVars, userRecord, authUser,
                   roleVars, cfgVars>>

\* the alerts page is not open: the engine's state at script load
AlertsIdle ==
    /\ thresholds = <<>>
    /\ active = <<>>
    /\ history = <<>>
    /\ activeAlerts = <<>>
    /\ initialLoadDone = FALSE
    /\ feed = <<>>
    /\ outbox = <<>>
    /\ sensorData = <<>>
    /\ lastCheckTime = 0
    /\ previousReadings = <<>>
    /\ checked = 0
    /\ notified = <<>>
    /\ errors = {}
    /\ pushed = 0
    /\ batches = 0
    /\ rejected = {}
    /\ failed = {}
    /\ created = {}
    /\ resolveDue = {}

ClsIdle == clsT = [safeMin |-> 0, safeMax |-> 0, warnMin |-> 0, warnMax |-> 0]
             /\ clsV = 0 /\ clsOut = "none"

\* no account is registered, nobody is signed in, no handler has run
AcctIdle ==
    /\ userRecord = [exists |-> FALSE, role |-> "", accountStatus |-> ""]
    /\ authUser = [kind |-> "none", emailVerified |-> FALSE]
    /\ lastOp = "none"

RoleIdle == serverState = "ok" /\ resolvedRole = "none"

\* the system configuration page is not open
CfgIdle == form = <<>> /\ thresholdsStore = <<>>
             /\ cfgMsg = [type |-> "none", sensor |-> "", why |-> ""]

\* the signup page is not open
SignupIdle ==
    /\ accounts = <<>> /\ currentUser = 0 /\ tempUser = 0 /\ localVerified = <<>>
    /\ checkInterval = FALSE /\ signupStep = "none" /\ tasks = <<>> /\ usersDb = <<>>

\* the WiFi panel is not open
WifiIdle ==
    /\ wifiStore = <<>> /\ wifiConfirmTimer = "" /\ wifiBanner = "none"
    /\ wifiForm = <<>>
    /\ wifiAttempt = "none"

\* no delivery of the sensors subscription is observed
SubIdle == delivered = [n |-> 0, data |-> [lastUpdate |-> 0, vals |-> <<>>]]

FlowIdle == SignupIdle /\ WifiIdle /\ SubIdle

PagesIdle == AcctIdle /\ RoleIdle /\ CfgIdle /\ FlowIdle

InitGate ==
    /\ userSession \in Sessions
    /\ currentPage \in Pages
    /\ href = <<>>
    /\ gatePc = "load"
    /\ ClsIdle
    /\ AlertsIdle
    /\ PagesIdle

NextGate == checkAuth \/ FollowRedirect

SpecGate == InitGate /\ [][NextGate]_vars

\* the Session is the one sign-in or guest entry writes for some role
WellFormedSession == \E r \in Roles : userSession = SessionOf(r)

\* C1: under a well-formed Session of role r the gate lets page p load if and
\* only if p is a public page or p is on role r's page list (NAV_MENU[r]);
\* otherwise it navigates away.
C1_AllowedIffPublicOrListed ==
    (gatePc # "load" /\ WellFormedSession) =>
        ( gatePc = "allowed"
            <=> ( Matches(currentPage, publicPages)
                  \/ Matches(currentPage, NAV_MENU[userSession.role]) ) )


(***************************************************************************)
(* Threshold classification                                                *)
(***************************************************************************)

MaxLevel == 4

ScenarioB == [safeMin |-> 26, safeMax |-> 32, warnMin |-> 24, warnMax |-> 34]

ThresholdRecords ==
    [safeMin : 0..MaxLevel, safeMax : 0..MaxLevel,
     warnMin : 0..MaxLevel, warnMax : 0..MaxLevel] \cup { ScenarioB }

ClassifiedValues == (0..(MaxLevel + 1)) \cup { 28, 33, 35 }

\* a plausible slip: the critical cut-offs taken inclusive
ClassifyInclusive(t, value) ==
    IF      value <= t.warnMin THEN "critical"
    ELSE IF value >= t.warnMax THEN "critical"
    ELSE IF value < t.safeMin THEN "warning"
    ELSE IF value > t.safeMax THEN "warning"
    ELSE "safe"

\* the severity chain of checkThresholds for one parameter; "safe" is the
\* code's severity = null
Classify(t, value) ==
    IF      value < t.warnMin THEN "critical"
    ELSE IF value > t.warnMax THEN "critical"
    ELSE IF value < t.safeMin THEN "warning"
    ELSE IF value > t.safeMax THEN "warning"
    ELSE "safe"

GateIdle == userSession = NoSession /\ currentPage = IndexPage
              /\ href = <<>> /\ gatePc = "allowed" /\ PagesIdle

ClassifyValue ==
    /\ clsOut = "none"
    /\ clsOut' = Classify(clsT, clsV)
    /\ UNCHANGED <<clsT, clsV, gateVars, alertVars, pageVars>>

\* the next reading of the same parameter arrives
NextValue ==
    /\ clsOut # "none"
    /\ clsV' \in ClassifiedValues
    /\ clsOut' = "none"
    /\ UNCHANGED <<clsT, gateVars, alertVars, pageVars>>

InitClassify ==
    /\ clsT \in ThresholdRecords
    /\ clsV \in ClassifiedValues
    /\ clsOut = "none"
    /\ GateIdle
    /\ AlertsIdle

NextClassify == ClassifyValue \/ NextValue

SpecClassify == InitClassify /\ [][NextClassify]_vars

Ordered(t) == t.warnMin <= t.safeMin /\ t.safeMin <= t.safeMax /\ t.safeMax <= t.warnMax

\* C6: for a Threshold Record with warnMin <= safeMin <= safeMax <= warnMax a
\* value is Critical iff it is below warnMin or above warnMax, otherwise
\* Warning iff it is below safeMin or above safeMax, otherwise Safe; under
\* {safeMin 26, safeMax 32, warnMin 24, warnMax 34}, 35 is Critical, 33 is
\* Warning and 28 is Safe.
C6_ClassificationBands ==
    (clsOut # "none" /\ Ordered(clsT)) =>
        LET crit == clsV < clsT.warnMin \/ clsV > clsT.warnMax
            warn == ~crit /\ (clsV < clsT.safeMin \/ clsV > clsT.safeMax)
        IN  /\ clsOut \in {"critical", "warning", "safe"}
            /\ (clsOut = "critical" <=> crit)
            /\ (clsOut = "warning"  <=> warn)
            /\ (clsOut = "safe"     <=> (~crit /\ ~warn))
            /\ (clsT = ScenarioB /\ clsV = 35 => clsOut = "critical")
            /\ (clsT = ScenarioB /\ clsV = 33 => clsOut = "warning")
            /\ (clsT = ScenarioB /\ clsV = 28 => clsOut = "safe")

\* the scenario's warning reading has been classified
C6_Witness == clsT = ScenarioB /\ clsV = 33 /\ clsOut = "warning"

(***************************************************************************)
(* Alert lifecycle engine                                                  *)
(*                                                                         *)
(* Date.now() is a logical clock: the timestamp a classification writes is *)
(* the ordinal of that checkThresholds call, so later calls write later    *)
(* timestamps.  An alert's `threshold' and `message' texts are functions   *)
(* of its parameter and severity and are left out of the records.  A       *)
(* History record carries `src', the key of the active alert it was copied *)
(* from, which the code leaves implicit in the copied fields.              *)
(***************************************************************************)

MaxTime    == 3     \* readings carry lastUpdate in 0..MaxTime; the page loads at 1
MaxAlerts  == 2     \* keys alerts/active push() may hand out
MaxPending == 2     \* writes in flight at once
MaxHistory == 2     \* records in alerts/history
MaxFeed    == 2     \* change-feed events awaiting delivery
MaxBatches == 1     \* acknowledgeAll runs
MaxFailures == 1    \* store writes that fail

\* the parameter names checkIfValuesChanged compares, in the key order of the store
ParamSeq == <<"do", "ph", "salinity", "temperature", "turbidity">>
AllParams == { ParamSeq[i] : i \in 1..Len(ParamSeq) }

\* the Threshold Record the engine's parameters are configured with (hundredths)
BandRecord == [safeMin |-> 4, safeMax |-> 6, warnMin |-> 2, warnMax |-> 8]

\* values a sensor reports: 1 critical, 3 warning, 4 safe and within epsilon of 3
SensorValues == { 1, 3, 4 }

\* the parameters the pond's sensors report
MonitoredParams == { "ph" }

\* sensors snapshots: lastUpdate 0 is a reading without the field; vals holds
\* the parameters the reading defines
Readings ==
    { [lastUpdate |-> u, vals |-> f] :
        u \in 0..MaxTime,
        f \in UNION { [S -> SensorValues] : S \in SUBSET MonitoredParams } }

NoReadings == [set |-> FALSE, vals |-> <<>>]

Abs(x) == IF x < 0 THEN -x ELSE x

\* activeAlerts.find(a => a.parameter === parameter): the index of the first
\* entry of list for the parameter, 0 when there is none
FindByParameter(list, parameter) ==
    IF \E i \in 1..Len(list) : list[i].parameter = parameter
    THEN CHOOSE i \in 1..Len(list) :
            /\ list[i].parameter = parameter
            /\ \A j \in 1..(i - 1) : list[j].parameter # parameter
    ELSE 0

\* activeAlerts.find(a => a.id === alertId) / findIndex
FindById(list, id) ==
    IF \E i \in 1..Len(list) : list[i].id = id
    THEN CHOOSE i \in 1..Len(list) :
            /\ list[i].id = id
            /\ \A j \in 1..(i - 1) : list[j].id # id
    ELSE 0

\* activeAlerts.filter(a => a.id !== id)
FilterOutId(list, id) == SelectSeq(list, LAMBDA a : a.id # id)

HasId(list, id) == \E i \in 1..Len(list) : list[i].id = id

\* Number.prototype.toFixed(2): the decimal text of the number with two
\* decimals; values count hundredths, so the text holds the value exactly, and
\* it is a string where the reading held a number
ToFixed2(value) == [text |-> value]

\* a plausible slip: any newer reading counts as changed
CheckIfValuesChangedAlways(newData, oldData) == TRUE

\* checkIfValuesChanged
checkIfValuesChanged(newData, oldData) ==
    IF ~oldData.set THEN TRUE
    ELSE \E p \in AllParams :
            /\ p \in DOMAIN newData.vals
            /\ p \in DOMAIN oldData.vals
            /\ Abs(newData.vals[p] - oldData.vals[p]) > 1

\* the write operations the page issues; but for the fields an operation uses
\* the record is filled with blanks
NoRec == [parameter |-> "", value |-> 0, severity |-> "", timestamp |-> 0]

Op(kind, id, rec, chain, by, batch) ==
    [op |-> kind, id |-> id, rec |-> rec, chain |-> chain, by |-> by, batch |-> batch]

\* the History payload acknowledgeAlert, dismissAlert, acknowledgeAll and
\* autoResolveAlert build from an entry of activeAlerts
HistoryRec(a, acknowledged, dismissed, autoResolved) ==
    [src |-> a.id, parameter |-> a.parameter, value |-> a.value,
     severity |-> a.severity, timestamp |-> a.timestamp,
     acknowledged |-> acknowledged, dismissed |-> dismissed,
     autoResolved |-> autoResolved]

\* History records written or about to be written, against MaxHistory
HistLoad(out) ==
    Len(history) + Cardinality({ i \in 1..Len(out) : out[i].op = "histSet" })

\* a plausible slip: createOrUpdateAlert never looks for an existing alert
CreateOrUpdateAlwaysCreates(acc, parameter, value, severity, stamp) ==
    [ out    |-> Append(acc.out,
                   Op("create", acc.pushed + 1,
                      [parameter |-> parameter, value |-> ToFixed2(value),
                       severity |-> severity, timestamp |-> stamp],
                      "notify", "engine", 0)),
      pushed |-> acc.pushed + 1 ]

\* createOrUpdateAlert: acc = [out, pushed] is the outbox and the push counter
\* as the calls before it in the same checkThresholds run left them
createOrUpdateAlert(acc, parameter, value, severity, stamp) ==
    LET idx == FindByParameter(activeAlerts, parameter)
        fields == [parameter |-> "", value |-> ToFixed2(value),
                   severity |-> severity, timestamp |-> stamp]
    IN  IF idx # 0
        THEN [ out    |-> Append(acc.out,
                             Op("update", activeAlerts[idx].id, fields,
                                "none", "engine", 0)),
               pushed |-> acc.pushed ]
        ELSE [ out    |-> Append(acc.out,
                             Op("create", acc.pushed + 1,
                                [fields EXCEPT !.parameter = parameter],
                                "notify", "engine", 0)),
               pushed |-> acc.pushed + 1 ]

\* autoResolveAlert
autoResolveAlert(acc, parameter) ==
    LET idx == FindByParameter(activeAlerts, parameter)
    IN  IF idx = 0 THEN acc
        ELSE [ out    |-> Append(acc.out,
                             Op("histSet", activeAlerts[idx].id,
                                HistoryRec(activeAlerts[idx], TRUE, FALSE, TRUE),
                                "remove", "auto", 0)),
               pushed |-> acc.pushed ]

\* checkThresholds: the forEach over Object.keys(thresholds), from parameter
\* ps[1] on
RECURSIVE checkThresholds(_, _, _, _)
checkThresholds(ps, data, stamp, acc) ==
    IF ps = <<>> THEN acc
    ELSE LET param == Head(ps)
             next  ==
                IF param \notin DOMAIN thresholds \/ param \notin DOMAIN data.vals
                THEN acc
                ELSE LET severity == Classify(thresholds[param], data.vals[param])
                     IN  IF severity # "safe"
                         THEN createOrUpdateAlert(acc, param, data.vals[param],
                                                  severity, stamp)
                         ELSE autoResolveAlert(acc, param)
         IN  checkThresholds(Tail(ps), data, stamp, next)

\* the stored critical alerts whose parameter reading data puts in the safe band
FoundSafe(data) ==
    { k \in DOMAIN active :
        /\ active[k].severity = "critical"
        /\ active[k].parameter \in DOMAIN thresholds
        /\ active[k].parameter \in DOMAIN data.vals
        /\ Classify(thresholds[active[k].parameter],
                    data.vals[active[k].parameter]) = "safe" }

\* a plausible slip: a re-delivered reading counts as new
IsNewerOrSame(data) == data.lastUpdate >= lastCheckTime

\* lastUpdate > lastCheckTime
IsNewer(data) == data.lastUpdate > lastCheckTime

\* the sensors on('value') handler of setupRealtimeAlertListeners, for one
\* delivered snapshot; sensorData keeps the last reading that passed the
\* lastUpdate test
SensorsHandler(data) ==
    /\ lastCheckTime > 0
    /\ data.lastUpdate <= lastCheckTime + 1
    /\ IF IsNewer(data)
       THEN /\ sensorData' = data
            /\ lastCheckTime' = data.lastUpdate
            /\ IF checkIfValuesChanged(data, previousReadings)
               THEN LET r == checkThresholds(ParamSeq, data, checked + 1,
                                              [out |-> outbox, pushed |-> pushed])
                    IN  /\ r.pushed <= MaxAlerts
                        /\ Len(r.out) <= MaxPending
                        /\ HistLoad(r.out) <= MaxHistory
                        /\ outbox' = r.out
                        /\ pushed' = r.pushed
                        /\ checked' = checked + 1
                        /\ previousReadings' = [set |-> TRUE, vals |-> data.vals]
                        /\ resolveDue' = resolveDue \cup FoundSafe(data)
               ELSE UNCHANGED <<outbox, pushed, checked, previousReadings,
                                resolveDue>>
       ELSE UNCHANGED <<sensorData, lastCheckTime, outbox, pushed, checked,
                        previousReadings, resolveDue>>
    /\ UNCHANGED <<thresholds, active, history, activeAlerts, initialLoadDone,
                   feed, notified, errors, batches, rejected, failed, created,
                   gateVars, clsVars>>

\* a snapshot of the sensors subscription is delivered to the handler
SensorsValue(data) == SensorsHandler(data) /\ UNCHANGED pageVars

\* an entry of activeAlerts: { id: snap.key, ...snap.val() }
Entry(id, rec) == [id |-> id] @@ rec

\* acknowledgeAlert(alertId), from the card's Acknowledge button
acknowledgeAlert(alertId) ==
    LET idx == FindById(activeAlerts, alertId)
    IN  /\ idx # 0
        /\ Len(outbox) < MaxPending
        /\ HistLoad(outbox) < MaxHistory
        /\ outbox' = Append(outbox,
                        Op("histSet", alertId,
                           HistoryRec(activeAlerts[idx], TRUE, FALSE, FALSE),
                           "remove", "ack", 0))
        /\ UNCHANGED <<thresholds, active, history, activeAlerts, initialLoadDone,
                       feed, sensorData, lastCheckTime, previousReadings, checked,
                       notified, errors, pushed, batches, rejected, failed, created, resolveDue,
                       gateVars, clsVars, pageVars>>

\* dismissAlert(alertId), the confirm() dialog accepted
dismissAlert(alertId) ==
    LET idx == FindById(activeAlerts, alertId)
    IN  /\ idx # 0
        /\ Len(outbox) < MaxPending
        /\ HistLoad(outbox) < MaxHistory
        /\ outbox' = Append(outbox,
                        Op("histSet", alertId,
                           HistoryRec(activeAlerts[idx], FALSE, TRUE, FALSE),
                           "remove", "dismiss", 0))
        /\ UNCHANGED <<thresholds, active, history, activeAlerts, initialLoadDone,
                       feed, sensorData, lastCheckTime, previousReadings, checked,
                       notified, errors, pushed, batches, rejected, failed, created, resolveDue,
                       gateVars, clsVars, pageVars>>

\* the two writes acknowledgeAll pushes for each alert, from alert list[1] on:
\* the History set and, not chained to it, the removal
RECURSIVE AckAllWrites(_, _)
AckAllWrites(list, batch) ==
    IF list = <<>> THEN <<>>
    ELSE << Op("histSet", Head(list).id,
               HistoryRec(Head(list), TRUE, FALSE, FALSE), "none", "ackAll", batch),
            Op("remove", Head(list).id, NoRec, "none", "ackAll", batch) >>
         \o AckAllWrites(Tail(list), batch)

\* a plausible slip: acknowledgeAll issues the History writes alone
AckAllHistoryOnly(list, batch) ==
    SelectSeq(AckAllWrites(list, batch), LAMBDA o : o.op = "histSet")

\* acknowledgeAll, the confirm() dialog accepted
acknowledgeAll ==
    /\ Len(activeAlerts) # 0
    /\ batches < MaxBatches
    /\ Len(outbox) < MaxPending
    /\ HistLoad(outbox) < MaxHistory
    /\ batches' = batches + 1
    /\ outbox' = outbox \o AckAllWrites(activeAlerts, batches + 1)
    /\ UNCHANGED <<thresholds, active, history, activeAlerts, initialLoadDone,
                   feed, sensorData, lastCheckTime, previousReadings, checked,
                   notified, errors, pushed, rejected, failed, created, resolveDue, gateVars, clsVars, pageVars>>

Event(kind, id, rec) == [kind |-> kind, id |-> id, rec |-> rec]

Without(store, id) == [k \in (DOMAIN store) \ {id} |-> store[k]]

\* the record an update leaves under alerts/active/{id}: the given fields
\* merged into the record, or the fields alone when the key holds nothing
Updated(id, fields) ==
    IF id \in DOMAIN active
    THEN [active[id] EXCEPT !.value = fields.value, !.severity = fields.severity,
                            !.timestamp = fields.timestamp]
    ELSE fields

\* the rejection handlers: .catch of acknowledgeAlert and dismissAlert, the one
\* .catch of acknowledgeAll's Promise.all; the engine's writes have none
Reject(o) ==
    IF o.by \in {"ack", "dismiss"}
    THEN /\ errors' = errors \cup {o.by}
         /\ UNCHANGED rejected
    ELSE IF o.by = "ackAll" /\ o.batch \notin rejected
    THEN /\ errors' = errors \cup {"ackAll"}
         /\ rejected' = rejected \cup {o.batch}
    ELSE UNCHANGED <<errors, rejected>>

\* a plausible slip: the set() of a new alert has no completion callback
SetCompletedSilently(id) == notified

\* ref.set(newAlert).then(() => triggerAlertNotification(...))
SetCompleted(id) == [notified EXCEPT ![id].set = @ + 1]

\* the store completes the oldest write of the outbox (a page's writes travel
\* one connection and complete in the order issued), successfully or not, and
\* the promise's callbacks run
Complete(ok) ==
    /\ outbox # <<>>
    /\ LET o    == Head(outbox)
           rest == Tail(outbox)
       IN  IF ~ok
           THEN /\ Cardinality(failed) < MaxFailures
                /\ failed' = failed \cup {<<o.op, o.id>>}
                /\ Reject(o)
                /\ outbox' = rest
                /\ UNCHANGED <<active, history, feed, notified, created>>
           ELSE
             /\ UNCHANGED <<errors, rejected, failed>>
             /\ CASE o.op = "create" ->
                       /\ Len(feed) < MaxFeed
                       /\ active' = (o.id :> o.rec) @@ active
                       /\ feed' = Append(feed, Event("child_added", o.id, o.rec))
                       /\ notified' = SetCompleted(o.id)
                       /\ created' = created \cup {o.id}
                       /\ outbox' = rest
                       /\ UNCHANGED history
                  [] o.op = "update" ->
                       /\ Len(feed) < MaxFeed
                       /\ active' = (o.id :> Updated(o.id, o.rec)) @@ active
                       /\ feed' = Append(feed,
                                    Event(IF o.id \in DOMAIN active
                                          THEN "child_changed" ELSE "child_added",
                                          o.id, Updated(o.id, o.rec)))
                       /\ outbox' = rest
                       /\ UNCHANGED <<history, notified, created>>
                  [] o.op = "histSet" ->
                       /\ history' = Append(history, o.rec)
                       /\ outbox' = IF o.chain = "remove"
                                    THEN Append(rest, Op("remove", o.id, NoRec,
                                                         "none", o.by, o.batch))
                                    ELSE rest
                       /\ UNCHANGED <<active, feed, notified, created>>
                  [] o.op = "remove" ->
                       /\ o.id \in DOMAIN active => Len(feed) < MaxFeed
                       /\ active' = Without(active, o.id)
                       /\ feed' = IF o.id \in DOMAIN active
                                  THEN Append(feed, Event("child_removed", o.id, NoRec))
                                  ELSE feed
                       /\ outbox' = rest
                       /\ UNCHANGED <<history, notified, created>>
    /\ UNCHANGED <<thresholds, activeAlerts, initialLoadDone, sensorData,
                   lastCheckTime, previousReadings, checked, pushed, batches,
                   resolveDue, gateVars, clsVars, pageVars>>

\* the children of alerts/active in key order, from key k on (snap.forEach)
RECURSIVE SnapshotFrom(_)
SnapshotFrom(k) ==
    IF k > pushed THEN <<>>
    ELSE (IF k \in DOMAIN active THEN <<Entry(k, active[k])>> ELSE <<>>)
         \o SnapshotFrom(k + 1)

\* a plausible slip: child_changed also notifies
ChildChangedNotifies(e) ==
    LET idx == FindById(activeAlerts, e.id)
    IN  /\ activeAlerts' = IF idx # 0
                           THEN [activeAlerts EXCEPT ![idx] = Entry(e.id, e.rec)]
                           ELSE activeAlerts
        /\ notified' = [notified EXCEPT ![e.id].added = @ + 1]

\* the child_changed listener
ChildChanged(e) ==
    LET idx == FindById(activeAlerts, e.id)
    IN  /\ activeAlerts' = IF idx # 0
                           THEN [activeAlerts EXCEPT ![idx] = Entry(e.id, e.rec)]
                           ELSE activeAlerts
        /\ UNCHANGED notified

\* the child_added listener
ChildAdded(e) ==
    IF initialLoadDone /\ ~HasId(activeAlerts, e.id)
    THEN /\ activeAlerts' = Append(activeAlerts, Entry(e.id, e.rec))
         /\ notified' = [notified EXCEPT ![e.id].added = @ + 1]
    ELSE UNCHANGED <<activeAlerts, notified>>

\* the child_removed listener
ChildRemoved(e) ==
    /\ activeAlerts' = FilterOutId(activeAlerts, e.id)
    /\ UNCHANGED notified

\* the once('value') callback of loadActiveAlerts
ValueLoaded ==
    /\ activeAlerts' = SnapshotFrom(1)
    /\ UNCHANGED notified

\* the change feed delivers its oldest event to the page's listeners
Deliver ==
    /\ feed # <<>>
    /\ feed' = Tail(feed)
    /\ LET e == Head(feed)
       IN  CASE e.kind = "child_added"   -> ChildAdded(e)
             [] e.kind = "child_changed" -> ChildChanged(e)
             [] e.kind = "child_removed" -> ChildRemoved(e)
             [] e.kind = "value"         -> ValueLoaded
    /\ UNCHANGED <<thresholds, active, history, initialLoadDone, outbox,
                   sensorData, lastCheckTime, previousReadings, checked, errors,
                   pushed, batches, rejected, failed, created, resolveDue, gateVars, clsVars, pageVars>>

\* the 1000 ms timer of setupActiveAlertsListeners
SettleTimer ==
    /\ lastCheckTime > 0
    /\ ~initialLoadDone
    /\ initialLoadDone' = TRUE
    /\ UNCHANGED <<thresholds, active, history, activeAlerts, feed, outbox,
                   sensorData, lastCheckTime, previousReadings, checked, notified,
                   errors, pushed, batches, rejected, failed, created, resolveDue, gateVars, clsVars, pageVars>>

\* the alerts an earlier visit may have left in alerts/active
StoredAlerts ==
    { <<>>,
      <<[parameter |-> "ph", value |-> ToFixed2(1), severity |-> "critical",
         timestamp |-> 0]>> }

\* the child_added events the store sends for the children it already holds
InitialEvents(store) == [k \in DOMAIN store |-> Event("child_added", k, store[k])]

\* initializeAlertsPage has run: thresholds are loaded, the listeners are
\* attached, the once('value') read and the settle timer are pending
PageOpened(store, params) ==
    /\ thresholds = [p \in params |-> BandRecord]
    /\ active = store
    /\ history = <<>>
    /\ activeAlerts = <<>>
    /\ initialLoadDone = FALSE
    /\ feed = Append(InitialEvents(store), Event("value", 0, NoRec))
    /\ outbox = <<>>
    /\ sensorData = [lastUpdate |-> 0, vals |-> <<>>]
    /\ lastCheckTime = 1
    /\ previousReadings = NoReadings
    /\ checked = 0
    /\ notified = [k \in 1..(MaxAlerts + 1) |-> [set |-> 0, added |-> 0]]
    /\ errors = {}
    /\ pushed = Len(store)
    /\ batches = 0
    /\ rejected = {}
    /\ failed = {}
    /\ created = DOMAIN store
    /\ resolveDue = {}

Init ==
    /\ \E store \in StoredAlerts : PageOpened(store, MonitoredParams)
    /\ GateIdle
    /\ ClsIdle

Next ==
    \/ \E data \in Readings : SensorsValue(data)
    \/ \E id \in 1..MaxAlerts : acknowledgeAlert(id)
    \/ \E id \in 1..MaxAlerts : dismissAlert(id)
    \/ acknowledgeAll
    \/ \E ok \in BOOLEAN : Complete(ok)
    \/ Deliver
    \/ SettleTimer

Spec == Init /\ [][Next]_vars

(***************************************************************************)
(* The alerts page some time after opening on three stored alerts: the     *)
(* snapshot is loaded, the settle timer has fired, no write is in flight.  *)
(***************************************************************************)

\* a stored alert of either severity for parameter p
StoredAlert(p, severity) ==
    [parameter |-> p, value |-> ToFixed2(IF severity = "critical" THEN 1 ELSE 3),
     severity |-> severity, timestamp |-> 0]

ThreeAlerts ==
    { << StoredAlert("do", s1), StoredAlert("ph", s2), StoredAlert("temperature", s3) >> :
        s1 \in {"critical", "warning"}, s2 \in {"critical", "warning"},
        s3 \in {"critical", "warning"} }

SettledPage(store, params) ==
    /\ thresholds = [p \in params |-> BandRecord]
    /\ active = store
    /\ history = <<>>
    /\ activeAlerts = [k \in DOMAIN store |-> Entry(k, store[k])]
    /\ initialLoadDone = TRUE
    /\ feed = <<>>
    /\ outbox = <<>>
    /\ sensorData = [lastUpdate |-> 0, vals |-> <<>>]
    /\ lastCheckTime = 1
    /\ previousReadings = NoReadings
    /\ checked = 0
    /\ notified = [k \in 1..(MaxAlerts + Len(store)) |-> [set |-> 0, added |-> 0]]
    /\ errors = {}
    /\ pushed = Len(store)
    /\ batches = 0
    /\ rejected = {}
    /\ failed = {}
    /\ created = DOMAIN store
    /\ resolveDue = {}

InitAckAll ==
    /\ \E store \in ThreeAlerts : SettledPage(store, {"do", "ph", "temperature"})
    /\ GateIdle
    /\ ClsIdle

NextAckAll ==
    \/ acknowledgeAll
    \/ \E ok \in BOOLEAN : Complete(ok)
    \/ Deliver

SpecAckAll == InitAckAll /\ [][NextAckAll]_vars

(***************************************************************************)
(* Properties of the alert lifecycle engine                                *)
(***************************************************************************)

HistoryOf(k) == { i \in 1..Len(history) : history[i].src = k }

Quiescent == outbox = <<>> /\ feed = <<>>

\* C2: in every reachable state alerts/active holds at most one record per
\* parameter.
C2_OneActivePerParameter ==
    \A k1, k2 \in DOMAIN active :
        (active[k1].parameter # "" /\ active[k1].parameter = active[k2].parameter)
            => k1 = k2

\* C3: no alert is ever lost: every alert that was ever stored in alerts/active
\* is in alerts/active, in alerts/history, or in both.
C3_NoAlertLost ==
    \A k \in created : k \in DOMAIN active \/ HistoryOf(k) # {}

\* C4: acknowledgeAll ran on 3 active alerts, the History write of the 2nd
\* failed and every other write succeeded: alerts 1 and 3 are in History and
\* not in Active, alert 2 is still in Active with no History record, and an
\* error has been shown.
C4_PartialFailureKeepsSecond ==
    (batches = 1 /\ Quiescent /\ failed = {<<"histSet", 2>>}) =>
        /\ HistoryOf(1) # {} /\ 1 \notin DOMAIN active
        /\ HistoryOf(3) # {} /\ 3 \notin DOMAIN active
        /\ HistoryOf(2) = {} /\ 2 \in DOMAIN active
        /\ "ackAll" \in errors

\* C5: each active alert is moved to History exactly once: at most one History
\* record is ever written for an alert, and once its move has completed the
\* alert has one History record and is absent from Active.
C5_MovedExactlyOnce ==
    \A k \in created :
        /\ Cardinality(HistoryOf(k)) <= 1
        /\ (HistoryOf(k) # {} /\ Quiescent /\ failed = {}) => k \notin DOMAIN active

\* C7: an active alert created by a Critical reading whose parameter the next
\* processed reading finds Safe ends in History with autoResolved = true and
\* absent from Active; stated on the states where no write has failed and
\* every write and event the reading caused has been handled.
C7_SafeReadingResolves ==
    \A k \in resolveDue :
        (Quiescent /\ failed = {}) =>
            /\ k \notin DOMAIN active
            /\ \E i \in HistoryOf(k) : history[i].autoResolved

\* this step is the sensors subscription delivering, with a newer lastUpdate,
\* a reading whose values are those of the reading classified before it and
\* put parameter p outside its safe band
SecondFeed(p) ==
    /\ previousReadings.set
    /\ sensorData' # sensorData
    /\ sensorData'.vals = previousReadings.vals
    /\ p \in DOMAIN sensorData'.vals
    /\ p \in DOMAIN thresholds
    /\ Classify(thresholds[p], sensorData'.vals[p]) # "safe"

\* writes of kind op the outbox holds
Writes(out, op) == { i \in 1..Len(out) : out[i].op = op }

\* C8 as claimed: the second feed of the same out-of-band reading updates the
\* parameter's alert (an update of its timestamp/value is issued).
C8_SecondFeedUpdates ==
    [][ \A p \in AllParams :
          SecondFeed(p) => Cardinality(Writes(outbox', "update"))
                             > Cardinality(Writes(outbox, "update")) ]_vars

\* C8 as amended: the second feed of the same out-of-band reading issues no
\* write at all, so it neither creates another alert nor updates the
\* timestamp/value of the one the first feed left.
C8_SecondFeedWritesNothing ==
    [][ \A p \in AllParams :
          SecondFeed(p) => /\ outbox' = outbox
                           /\ pushed' = pushed
                           /\ active' = active ]_vars

\* the same out-of-band reading has been fed twice and its alert is the one the
\* first feed created
C8_Witness ==
    /\ checked = 1
    /\ sensorData.lastUpdate = 3
    /\ sensorData.vals = previousReadings.vals
    /\ "ph" \in DOMAIN sensorData.vals /\ sensorData.vals["ph"] = 1
    /\ \E k \in created : k \in DOMAIN active /\ active[k].timestamp = 1

\* some parameter of reading data differs from reading prev by more than 0.01
DiffersFrom(data, prev) ==
    \E p \in AllParams :
        /\ p \in DOMAIN data.vals
        /\ p \in DOMAIN prev.vals
        /\ Abs(data.vals[p] - prev.vals[p]) > 1

\* C9 as claimed: checkThresholds runs for a reading only if its lastUpdate is
\* greater than the last processed time and some parameter differs from the
\* previously classified reading by more than 0.01.
C9_ClassifiedOnlyIfNewerAndDiffers ==
    [][ checked' # checked =>
            /\ sensorData'.lastUpdate > lastCheckTime
            /\ DiffersFrom(sensorData', previousReadings) ]_vars

\* C9 as amended: checkThresholds runs for a reading only if its lastUpdate is
\* greater than the last processed time and either no reading has been
\* classified yet or some parameter differs from the previously classified
\* reading by more than 0.01; a newer reading with the values of the previous
\* one causes no classification, no store write and no notification.
C9_ClassifiedOnlyIfNewerAndFirstOrDiffers ==
    [][ /\ checked' # checked =>
            /\ sensorData'.lastUpdate > lastCheckTime
            /\ (~previousReadings.set \/ DiffersFrom(sensorData', previousReadings))
        /\ (previousReadings.set /\ sensorData' # sensorData
              /\ sensorData'.vals = previousReadings.vals) =>
            /\ checked' = checked
            /\ previousReadings' = previousReadings
            /\ outbox' = outbox
            /\ active' = active
            /\ notified' = notified ]_vars

\* a second reading with the values of the first has been delivered and was
\* not classified
C9_Witness ==
    /\ checked = 1
    /\ lastCheckTime = 3
    /\ sensorData.lastUpdate = 3
    /\ previousReadings.set
    /\ sensorData.vals = previousReadings.vals
    /\ sensorData.vals # <<>>

\* this step completes an update that createOrUpdateAlert issued
UpdateStep ==
    /\ outbox # <<>>
    /\ Head(outbox).op = "update"
    /\ outbox' = Tail(outbox)

\* this step delivers a child_changed event
ChangedStep ==
    /\ feed # <<>>
    /\ Head(feed).kind = "child_changed"
    /\ feed' = Tail(feed)

\* C10: the step that stores a newly created active alert dispatches its
\* notification, and no notification is dispatched by the sensors handler
\* itself, by the completion of an update of an alert, or by the delivery of a
\* child_changed event.
C10_NotifyOnCreateNotUpdate ==
    [][ /\ \A k \in created' \ created : notified'[k].set = notified[k].set + 1
        /\ (UpdateStep \/ ChangedStep \/ checked' # checked)
             => notified' = notified ]_vars

\* an alert this page created and notified once has been updated in place by
\* the second classification; the page has yet to see the change
C10_Witness ==
    /\ feed # <<>>
    /\ Head(feed).kind = "child_changed"
    /\ \E k \in DOMAIN active :
          /\ Head(feed).id = k
          /\ notified[k].set = 1
          /\ active[k].timestamp = 2
          /\ \E i \in 1..Len(activeAlerts) :
                activeAlerts[i].id = k /\ activeAlerts[i].timestamp = 1

\* e is one of the child_added events the store sends for an alert it held
\* when the listener attached: such an alert carries the timestamp of an
\* earlier visit, 0, and every alert written after page load a later one
InitialEvent(e) == e.kind = "child_added" /\ e.rec.timestamp = 0

\* C11: delivering the child_added event of an alert that was already in
\* alerts/active when the listener attached dispatches no notification, and
\* the local activeAlerts list never holds two entries for one alert.
C11_PreExistingSilent ==
    [][ (feed # <<>> /\ InitialEvent(Head(feed)) /\ feed' = Tail(feed)) =>
            /\ notified' = notified
            /\ \A i, j \in 1..Len(activeAlerts') :
                  activeAlerts'[i].id = activeAlerts'[j].id => i = j ]_vars

(***************************************************************************)
(* Properties of the access gate's handling of odd Sessions                *)
(***************************************************************************)

\* this step is checkAuth running on a page that is not public
GateRuns == gatePc = "load" /\ gatePc' # "load" /\ ~Matches(currentPage, publicPages)

\* the stored text parses to an object that is neither a guest Session nor an
\* authenticated one
OtherShape(s) == s.raw = "json" /\ ~s.isGuest /\ ~(s.isLoggedIn /\ s.uid # "")

\* C17: on a page that is not public, with the store empty, holding text that
\* does not parse, or holding a Session that is neither guest nor
\* authenticated, checkAuth navigates to the sign-in page and never allows the
\* page; in the latter two cases the store is empty afterwards.
C17_FailsClosed ==
    [][ (GateRuns /\ (userSession \in {NoSession, BadSession} \/ OtherShape(userSession))) =>
            /\ gatePc' = "redirected"
            /\ href' = IndexPage
            /\ userSession' = NoSession ]_vars

\* a Session of a shape the gate does not know was met on the config page
C17_Witness ==
    /\ gatePc = "redirected"
    /\ currentPage = ConfigPage
    /\ href = IndexPage
    /\ userSession = NoSession

\* the Session whose content is {role: "guest"}
RoleOnlyGuest ==
    [raw |-> "json", isGuest |-> FALSE, isLoggedIn |-> FALSE, uid |-> "", role |-> "guest"]

\* C18 as claimed: the Session {role: "guest"} requesting
\* /html/systemConfig.html is redirected to /html/dashboard.html.
C18_RoleOnlyGuestToDashboard ==
    [][ (GateRuns /\ userSession = RoleOnlyGuest /\ currentPage = ConfigPage) =>
            (gatePc' = "redirected" /\ href' = DashboardPage) ]_vars

\* C18 as amended: a guest Session (guest flag set) requesting
\* /html/systemConfig.html is denied, redirected to /html/dashboard.html and
\* kept; the Session {role: "guest"}, which has no guest flag, is denied too,
\* but is removed and redirected to /index.html.
C18_GuestDeniedConfig ==
    [][ /\ (GateRuns /\ userSession = SessionOf("guest") /\ currentPage = ConfigPage) =>
              (gatePc' = "redirected" /\ href' = DashboardPage
                 /\ userSession' = userSession)
        /\ (GateRuns /\ userSession = RoleOnlyGuest /\ currentPage = ConfigPage) =>
              (gatePc' = "redirected" /\ href' = IndexPage
                 /\ userSession' = NoSession) ]_vars

\* a guest Session has been turned away from the config page
C18_Witness ==
    /\ gatePc = "redirected"
    /\ currentPage = ConfigPage
    /\ href = DashboardPage
    /\ userSession = SessionOf("guest")

(***************************************************************************)
(* Sessions, accounts and the identity provider                            *)
(*                                                                         *)
(* One registered identity, u1, with its User Record users/u1; the record  *)
(* is changed from the user-management page of an administrator's browser. *)
(* The provider's current user is nobody, an anonymous user or u1.  The    *)
(* uid a Session carries is opaque to every handler here but for its       *)
(* presence, so the anonymous user's uid is written "u1" as well.          *)
(***************************************************************************)

NoUser      == [kind |-> "none", emailVerified |-> FALSE]
AnonUser    == [kind |-> "anon", emailVerified |-> FALSE]
UserOf(v)   == [kind |-> "user", emailVerified |-> v]

Statuses == { "active", "disabled", "suspended" }

UserRecords ==
    [exists : {TRUE}, role : Roles \cup {""}, accountStatus : Statuses]
      \cup { [exists |-> FALSE, role |-> "", accountStatus |-> ""] }

\* the pages the browser is asked to open in the session scenarios
SessionPages ==
    { IndexPage, DashboardPage, AlertsPage, ConfigPage, AdminPage,
      <<"html", "forgotpassword.html">> }

\* checkFirebaseAuth's own publicPages list
reconcilePublicPages ==
    { IndexPage, <<"html", "signup.html">>, <<"forgot-password.html">>, <<"">> }

\* the Session object login and the dashboard refresh write
UserSessionOf(role) ==
    [raw |-> "json", isGuest |-> FALSE, isLoggedIn |-> TRUE, uid |-> "u1", role |-> role]

\* role || 'user'
RoleOrUser(role) == IF role = "" THEN "user" ELSE role

\* redirectBasedOnRole(role) of the login page
RoleHome(role) == IF role = "admin" THEN AdminPage ELSE DashboardPage

\* the page is displayed: the gate let it load
Shown(pages) == gatePc = "allowed" /\ Matches(currentPage, pages)

\* the login form's submit handler, the provider accepting the credentials of
\* u1; verified is the emailVerified flag of the identity
LoginSubmit(verified) ==
    /\ Shown({IndexPage, <<"">>})
    /\ lastOp' = "login"
    /\ IF ~verified \/ ~userRecord.exists
          \/ userRecord.accountStatus \in {"disabled", "suspended"}
       THEN /\ authUser' = NoUser
            /\ IF verified /\ ~userRecord.exists
               THEN href' = <<"html", "signup.html">> /\ gatePc' = "redirected"
               ELSE UNCHANGED <<href, gatePc>>
            /\ UNCHANGED userSession
       ELSE /\ authUser' = UserOf(TRUE)
            /\ userSession' = UserSessionOf(RoleOrUser(userRecord.role))
            /\ href' = RoleHome(RoleOrUser(userRecord.role))
            /\ gatePc' = "redirected"
    /\ UNCHANGED <<currentPage, userRecord, roleVars, cfgVars, flowVars, clsVars, alertVars>>

\* the guest button's click handler, signInAnonymously succeeding
GuestEntry ==
    /\ Shown({IndexPage, <<"">>})
    /\ lastOp' = "guest"
    /\ authUser' = AnonUser
    /\ userSession' = SessionOf("guest")
    /\ href' = DashboardPage
    /\ gatePc' = "redirected"
    /\ UNCHANGED <<currentPage, userRecord, roleVars, cfgVars, flowVars, clsVars, alertVars>>

\* redirectToLogin of the dashboard
RedirectToLogin ==
    /\ userSession' = NoSession
    /\ href' = IndexPage
    /\ gatePc' = "redirected"

\* the dashboard's auth.onAuthStateChanged callback; readOk tells whether
\* loadUserData's read of users/u1 succeeds
DashboardAuthChanged(readOk) ==
    /\ Shown({DashboardPage})
    /\ lastOp' = "dashboardAuth"
    /\ CASE authUser.kind = "anon" ->
              /\ userSession' = IF userSession = NoSession
                                THEN SessionOf("guest") ELSE userSession
              /\ UNCHANGED <<authUser, href, gatePc>>
         [] authUser.kind = "user" /\ ~authUser.emailVerified ->
              /\ authUser' = NoUser
              /\ RedirectToLogin
         [] authUser.kind = "user" /\ authUser.emailVerified ->
              /\ userSession' =
                    UserSessionOf(IF readOk /\ userRecord.exists
                                  THEN RoleOrUser(userRecord.role) ELSE "user")
              /\ UNCHANGED <<authUser, href, gatePc>>
         [] authUser.kind = "none" ->
              /\ RedirectToLogin
              /\ UNCHANGED authUser
    /\ UNCHANGED <<currentPage, userRecord, roleVars, cfgVars, flowVars, clsVars, alertVars>>

\* a plausible slip: the reconciliation spares no Session
ReconcileAny(s) == s.raw = "json"

\* checkFirebaseAuth's test of the parsed Session: !session.isGuest && session.isLoggedIn
Reconcile(s) == s.raw = "json" /\ ~s.isGuest /\ s.isLoggedIn

\* the onAuthStateChanged callback checkFirebaseAuth registers, 500 ms after
\* the page loaded; JSON.parse throwing leaves everything as it was
checkFirebaseAuth ==
    /\ gatePc = "allowed"
    /\ lastOp' = "checkFirebaseAuth"
    /\ IF authUser.kind = "none" /\ userSession # NoSession /\ Reconcile(userSession)
       THEN /\ userSession' = NoSession
            /\ IF ~Matches(currentPage, reconcilePublicPages)
               THEN href' = IndexPage /\ gatePc' = "redirected"
               ELSE UNCHANGED <<href, gatePc>>
       ELSE UNCHANGED <<userSession, href, gatePc>>
    /\ UNCHANGED <<currentPage, userRecord, authUser, roleVars, cfgVars, flowVars, clsVars,
                   alertVars>>

\* window.logout; ok tells whether the provider's signOut succeeds
logout(ok) ==
    /\ gatePc = "allowed"
    /\ lastOp' = "logout"
    /\ userSession' = NoSession
    /\ authUser' = IF ok THEN NoUser ELSE authUser
    /\ href' = IndexPage
    /\ gatePc' = "redirected"
    /\ UNCHANGED <<currentPage, userRecord, roleVars, cfgVars, flowVars, clsVars, alertVars>>

\* the dashboard's logout button, the confirm() dialog accepted; a failing
\* signOut goes to the catch block, which shows an alert
logoutBtn(ok) ==
    /\ Shown({DashboardPage})
    /\ lastOp' = "logoutBtn"
    /\ IF ok
       THEN /\ authUser' = NoUser
            /\ RedirectToLogin
       ELSE UNCHANGED <<authUser, userSession, href, gatePc>>
    /\ UNCHANGED <<currentPage, userRecord, roleVars, cfgVars, flowVars, clsVars, alertVars>>

\* toggleUserStatus of the user-management page, run by an administrator
toggleUserStatus ==
    /\ userRecord.exists
    /\ lastOp' = "toggleUserStatus"
    /\ userRecord' = [userRecord EXCEPT !.accountStatus =
                         IF @ = "active" THEN "disabled" ELSE "active"]
    /\ UNCHANGED <<gateVars, authUser, roleVars, cfgVars, flowVars, clsVars, alertVars>>

\* updateUserRole(targetUserId, newRole), run by an administrator
updateUserRole(newRole) ==
    /\ userRecord.exists
    /\ newRole \in Roles
    /\ lastOp' = "updateUserRole"
    /\ userRecord' = [userRecord EXCEPT !.role = newRole]
    /\ UNCHANGED <<gateVars, authUser, roleVars, cfgVars, flowVars, clsVars, alertVars>>

\* the user opens a page
Navigate(p) ==
    /\ gatePc = "allowed"
    /\ lastOp' = "navigate"
    /\ currentPage' = p
    /\ gatePc' = "load"
    /\ UNCHANGED <<userSession, href, userRecord, authUser, roleVars, cfgVars,
                   flowVars, clsVars, alertVars>>

\* a browser at the sign-in page with nothing or leftover text in the store
InitSession ==
    /\ userSession \in {NoSession, BadSession}
    /\ currentPage = IndexPage
    /\ href = <<>>
    /\ gatePc = "load"
    /\ userRecord \in UserRecords
    /\ authUser = NoUser
    /\ lastOp = "none"
    /\ RoleIdle
    /\ CfgIdle
    /\ FlowIdle
    /\ ClsIdle
    /\ AlertsIdle

NextSession ==
    \/ checkAuth
    \/ FollowRedirect
    \/ \E v \in BOOLEAN : LoginSubmit(v)
    \/ GuestEntry
    \/ \E readOk \in BOOLEAN : DashboardAuthChanged(readOk)
    \/ checkFirebaseAuth
    \/ \E ok \in BOOLEAN : logout(ok)
    \/ \E ok \in BOOLEAN : logoutBtn(ok)
    \/ toggleUserStatus
    \/ \E r \in Roles : updateUserRole(r)
    \/ \E p \in SessionPages : Navigate(p)

SpecSession == InitSession /\ [][NextSession]_vars

(***************************************************************************)
(* Properties of sessions and reconciliation                               *)
(***************************************************************************)

\* s is a stored Session with a role beyond guest
HoldsNonGuestRole(s) == s.raw = "json" /\ s.role \in {"admin", "user"}

\* the User Record exists and its accountStatus is not active
Inactive == userRecord.exists /\ userRecord.accountStatus # "active"

\* C12: no stored Session with a non-guest role belongs to a User Record whose
\* accountStatus is not active, after every step of every handler, and the
\* gate never allows a protected page to such a Session.
C12_NoSessionForInactive ==
    [][ /\ HoldsNonGuestRole(userSession') => ~Inactive'
        /\ (GateRuns /\ HoldsNonGuestRole(userSession) /\ Inactive)
              => gatePc' # "allowed" ]_vars

\* C13: every Session written to the userSession store has isGuest set if and
\* only if its role is guest.
C13_GuestFlagIffGuestRole ==
    [][ (userSession' # userSession /\ userSession'.raw = "json") =>
            (userSession'.isGuest <=> userSession'.role = "guest") ]_vars

\* C14: when the provider reports no signed-in user while the stored Session
\* is non-guest and has isLoggedIn set, checkFirebaseAuth removes the Session,
\* navigates to the sign-in page if the current page is not a public page, and
\* stays on the page if it is.
C14_ReconcileClearsAndRedirects ==
    [][ (lastOp' = "checkFirebaseAuth" /\ authUser.kind = "none"
           /\ Reconcile(userSession)) =>
            /\ userSession' = NoSession
            /\ IF Matches(currentPage, publicPages)
               THEN gatePc' = gatePc /\ href' = href
               ELSE gatePc' = "redirected" /\ href' = IndexPage ]_vars

\* C15: while the provider reports no signed-in user, neither checkFirebaseAuth
\* nor the dashboard's onAuthStateChanged callback removes a guest Session or
\* navigates away because of it.
C15_GuestSessionExempt ==
    [][ (lastOp' \in {"checkFirebaseAuth", "dashboardAuth"}
           /\ authUser.kind = "none"
           /\ userSession.raw = "json" /\ userSession.isGuest) =>
            (userSession' = userSession /\ gatePc' = gatePc) ]_vars

\* C16: after window.logout or the dashboard's logout handler has run, whether
\* or not the provider's signOut succeeded, the userSession store is empty and
\* the browser has been sent to the sign-in page.
C16_LogoutCompletes ==
    lastOp \in {"logout", "logoutBtn"} =>
        (userSession = NoSession /\ gatePc = "redirected" /\ href = IndexPage)

(***************************************************************************)
(* Role resolution (rolemanager getCurrentUserRole)                        *)
(*                                                                         *)
(* serverState is "noSdk" when firebase.database is not defined, "ok" when *)
(* the read of users/{uid} resolves and "failing" when it rejects.         *)
(***************************************************************************)

ServerStates == { "noSdk", "ok", "failing" }

\* getCurrentUserRole: no stored text gives the default; JSON.parse throwing
\* and the read rejecting both end in the catch block, which returns guest
GetCurrentUserRole(s, srv, rec) ==
    IF s.raw = "absent" THEN "guest"
    ELSE IF s.raw = "garbage" THEN "guest"
    ELSE IF s.isGuest THEN "guest"
    ELSE IF s.uid # "" /\ srv = "failing" THEN "guest"
    ELSE IF s.uid # "" /\ srv = "ok" /\ rec.exists THEN RoleOrUser(rec.role)
    ELSE IF s.role # "" THEN s.role
    ELSE "guest"

\* one call of getCurrentUserRole
getCurrentUserRole ==
    /\ resolvedRole = "none"
    /\ resolvedRole' = GetCurrentUserRole(userSession, serverState, userRecord)
    /\ UNCHANGED <<gateVars, acctVars, serverState, cfgVars, flowVars, clsVars, alertVars>>

InitRole ==
    /\ userSession \in Sessions
    /\ userRecord \in UserRecords
    /\ serverState \in ServerStates
    /\ resolvedRole = "none"
    /\ currentPage = DashboardPage /\ href = <<>> /\ gatePc = "allowed"
    /\ authUser = NoUser /\ lastOp = "none"
    /\ CfgIdle
    /\ FlowIdle
    /\ ClsIdle
    /\ AlertsIdle

NextRole == getCurrentUserRole

SpecRole == InitRole /\ [][NextRole]_vars

\* C19: getCurrentUserRole returns guest when the Session's guest flag is set;
\* otherwise the role of users/{uid} when the read succeeds and the record
\* exists; otherwise (no SDK, read failing, record missing) the role cached in
\* the Session; otherwise guest.
C19_RolePrecedence ==
    (resolvedRole # "none" /\ userSession.raw = "json") =>
        resolvedRole =
            IF userSession.isGuest THEN "guest"
            ELSE IF userSession.uid # "" /\ serverState = "ok" /\ userRecord.exists
                 THEN RoleOrUser(userRecord.role)
            ELSE IF userSession.role # "" THEN userSession.role
            ELSE "guest"

(***************************************************************************)
(* System configuration page: saveThresholds                               *)
(*                                                                         *)
(* An input's text is [lead, junk]: lead is the number its leading         *)
(* characters spell, NoNumber when they spell none, and junk tells whether *)
(* other characters follow.  parseFloat reads the leading number and       *)
(* ignores what follows it.                                                *)
(***************************************************************************)

NoNumber == -1

\* the sensors of defaultThresholds the form is modelled for, in key order
ConfigSensors == <<"do", "temperature">>

\* what an input box may hold: "", "abc", "0" .. and "2abc"
InputTexts ==
    { [lead |-> n, junk |-> FALSE] : n \in 0..MaxLevel }
      \cup { [lead |-> NoNumber, junk |-> FALSE], [lead |-> NoNumber, junk |-> TRUE],
             [lead |-> 2, junk |-> TRUE] }

Numeral(n) == [lead |-> n, junk |-> FALSE]

\* the four inputs of one sensor
SensorForms ==
    [safeMin : InputTexts, safeMax : InputTexts, warnMin : InputTexts, warnMax : InputTexts]

\* the inputs as loadThresholds fills them: a record with
\* warnMin < safeMin < safeMax < warnMax, as each of defaultThresholds is,
\* on the scale 0..MaxLevel
DefaultForm ==
    [safeMin |-> Numeral(1), safeMax |-> Numeral(2),
     warnMin |-> Numeral(0), warnMax |-> Numeral(3)]

\* what the second sensor's inputs hold while the first sensor's are edited
OtherForms ==
    { DefaultForm,
      [DefaultForm EXCEPT !.safeMax = Numeral(1)],
      [DefaultForm EXCEPT !.warnMin = [lead |-> NoNumber, junk |-> FALSE]] }

\* parseFloat: the leading number, NaN when the text has none
ParseFloat(text) ==
    IF text.lead = NoNumber THEN [nan |-> TRUE, num |-> 0]
    ELSE [nan |-> FALSE, num |-> text.lead]

IsNaN(x) == x.nan

\* the four parsed values of a sensor's inputs
Parsed(f) ==
    [safeMin |-> ParseFloat(f.safeMin), safeMax |-> ParseFloat(f.safeMax),
     warnMin |-> ParseFloat(f.warnMin), warnMax |-> ParseFloat(f.warnMax)]

\* a plausible slip: the two comparisons accept equal bounds
ValidationErrorLax(t) ==
    IF IsNaN(t.safeMin) \/ IsNaN(t.safeMax) \/ IsNaN(t.warnMin) \/ IsNaN(t.warnMax)
    THEN "nan"
    ELSE IF t.safeMin.num > t.safeMax.num THEN "safe"
    ELSE IF t.warnMin.num > t.warnMax.num THEN "warn"
    ELSE "none"

\* the validation of one sensor's parsed values: which error is shown, "none"
\* when the values pass
ValidationError(t) ==
    IF IsNaN(t.safeMin) \/ IsNaN(t.safeMax) \/ IsNaN(t.warnMin) \/ IsNaN(t.warnMax)
    THEN "nan"
    ELSE IF t.safeMin.num >= t.safeMax.num THEN "safe"
    ELSE IF t.warnMin.num >= t.warnMax.num THEN "warn"
    ELSE "none"

\* the Threshold Record written for parsed values that passed validation
RecordOf(t) ==
    [safeMin |-> t.safeMin.num, safeMax |-> t.safeMax.num,
     warnMin |-> t.warnMin.num, warnMax |-> t.warnMax.num]

\* the first sensor, from ConfigSensors[i] on, whose inputs fail validation; 0
\* when all pass
RECURSIVE FirstInvalid(_)
FirstInvalid(i) ==
    IF i > Len(ConfigSensors) THEN 0
    ELSE IF ValidationError(Parsed(form[ConfigSensors[i]])) # "none" THEN i
    ELSE FirstInvalid(i + 1)

\* saveThresholds; confirmed tells whether the confirm modal is accepted and
\* writeOk whether thresholdsRef.update succeeds
saveThresholds(confirmed, writeOk) ==
    /\ form # <<>>
    /\ LET bad == FirstInvalid(1)
       IN  IF bad # 0
           THEN /\ cfgMsg' = [type |-> "error", sensor |-> ConfigSensors[bad],
                              why |-> ValidationError(Parsed(form[ConfigSensors[bad]]))]
                /\ UNCHANGED thresholdsStore
           ELSE IF ~confirmed
           THEN UNCHANGED <<cfgMsg, thresholdsStore>>
           ELSE IF ~writeOk
           THEN /\ cfgMsg' = [type |-> "error", sensor |-> "", why |-> "write"]
                /\ UNCHANGED thresholdsStore
           ELSE /\ thresholdsStore' =
                      [p \in DOMAIN form |-> RecordOf(Parsed(form[p]))] @@ thresholdsStore
                /\ cfgMsg' = [type |-> "success", sensor |-> "", why |-> ""]
    /\ UNCHANGED <<form, gateVars, acctVars, roleVars, flowVars, clsVars, alertVars>>

\* the administrator types text into one input box
EditInput(sensor, field, text) ==
    /\ form # <<>>
    /\ sensor \in DOMAIN form
    /\ form' = [form EXCEPT ![sensor][field] = text]
    /\ UNCHANGED <<thresholdsStore, cfgMsg, gateVars, acctVars, roleVars, flowVars, clsVars,
                   alertVars>>

\* the configuration page is open, its inputs filled, nothing saved yet
InitConfig ==
    /\ \E f \in SensorForms, g \in OtherForms :
          form = [p \in {"do", "temperature"} |-> IF p = "do" THEN f ELSE g]
    /\ thresholdsStore = [p \in {"do", "temperature"} |-> RecordOf(Parsed(DefaultForm))]
    /\ cfgMsg = [type |-> "none", sensor |-> "", why |-> ""]
    /\ userSession = SessionOf("admin")
    /\ currentPage = ConfigPage /\ href = <<>> /\ gatePc = "allowed"
    /\ AcctIdle
    /\ RoleIdle
    /\ FlowIdle
    /\ ClsIdle
    /\ AlertsIdle

NextConfig ==
    \/ \E confirmed \in BOOLEAN, writeOk \in BOOLEAN : saveThresholds(confirmed, writeOk)
    \/ \E text \in {Numeral(0), Numeral(2)} : EditInput("temperature", "safeMin", text)

SpecConfig == InitConfig /\ [][NextConfig]_vars

\* C20: every Threshold Record in the thresholds store satisfies
\* warnMin <= safeMin <= safeMax <= warnMax, whatever numbers the form held
\* when saveThresholds wrote it.
C20_StoredRecordsOrdered ==
    \A p \in DOMAIN thresholdsStore : Ordered(thresholdsStore[p])

\* the inputs of one sensor break the rule a save requires: a value that is
\* not a number, safeMin >= safeMax, or warnMin >= warnMax
InvalidInputs(f) ==
    \/ \E k \in {"safeMin", "safeMax", "warnMin", "warnMax"} : f[k].lead = NoNumber
    \/ f.safeMin.lead >= f.safeMax.lead
    \/ f.warnMin.lead >= f.warnMax.lead

\* the positions in ConfigSensors of the sensors whose inputs are invalid
InvalidSensors == { i \in 1..Len(ConfigSensors) : InvalidInputs(form[ConfigSensors[i]]) }

\* C21: a saveThresholds step taken while some parameter's inputs are invalid
\* (not a number, safeMin >= safeMax or warnMin >= warnMax, equality included)
\* writes nothing to the thresholds store, for any parameter, and shows an
\* error naming an invalid parameter, the first one in the form's order.
C21_InvalidSaveWritesNothing ==
    [][ (form # <<>> /\ form' = form /\ cfgVars' # cfgVars /\ InvalidSensors # {}) =>
            /\ thresholdsStore' = thresholdsStore
            /\ cfgMsg'.type = "error"
            /\ \E i \in InvalidSensors :
                  /\ cfgMsg'.sensor = ConfigSensors[i]
                  /\ \A j \in InvalidSensors : i <= j ]_vars

\* a save was refused for temperature, whose safeMin equals its safeMax, while
\* the inputs of do were valid and differed from the stored record
C21_Witness ==
    /\ form # <<>>
    /\ cfgMsg = [type |-> "error", sensor |-> "temperature", why |-> "safe"]
    /\ form["temperature"].safeMin = form["temperature"].safeMax
    /\ ~InvalidInputs(form["do"])
    /\ RecordOf(Parsed(form["do"])) # thresholdsStore["do"]

(***************************************************************************)
(* The gate in front of the configuration page                             *)
(***************************************************************************)

\* the thresholds store as seeded
SeededThresholds == [p \in {"do", "temperature"} |-> RecordOf(Parsed(DefaultForm))]

\* DOMContentLoaded on the configuration page the gate let through:
\* loadThresholds fills the inputs from the thresholds store
ConfigPageLoaded ==
    /\ gatePc = "allowed"
    /\ currentPage = ConfigPage
    /\ form = <<>>
    /\ form' = [p \in DOMAIN thresholdsStore |->
                  [k \in {"safeMin", "safeMax", "warnMin", "warnMax"} |->
                      Numeral(thresholdsStore[p][k])]]
    /\ UNCHANGED <<thresholdsStore, cfgMsg, gateVars, acctVars, roleVars, flowVars, clsVars,
                   alertVars>>

\* a stored Session of each role asks for the configuration page
InitGatedConfig ==
    /\ \E r \in Roles : userSession = SessionOf(r)
    /\ currentPage = ConfigPage /\ href = <<>> /\ gatePc = "load"
    /\ form = <<>>
    /\ thresholdsStore = SeededThresholds
    /\ cfgMsg = [type |-> "none", sensor |-> "", why |-> ""]
    /\ AcctIdle
    /\ RoleIdle
    /\ FlowIdle
    /\ ClsIdle
    /\ AlertsIdle

NextGatedConfig ==
    \/ checkAuth
    \/ FollowRedirect
    \/ ConfigPageLoaded
    \/ \E field \in {"safeMin", "safeMax", "warnMin", "warnMax"},
          text \in {Numeral(0), Numeral(2), Numeral(MaxLevel)} :
            EditInput("do", field, text)
    \/ \E confirmed \in BOOLEAN, writeOk \in BOOLEAN : saveThresholds(confirmed, writeOk)

SpecGatedConfig == InitGatedConfig /\ [][NextGatedConfig]_vars

\* C22: the thresholds store is written only under an administrator's Session:
\* every step that changes the thresholds store is taken while the stored
\* Session has role admin.
C22_OnlyAdminWrites ==
    [][ thresholdsStore' # thresholdsStore =>
            (userSession.raw = "json" /\ ~userSession.isGuest
               /\ userSession.role = "admin") ]_vars

(***************************************************************************)
(* Signup page                                                             *)
(*                                                                         *)
(* Each handler of the page runs to its next await and is resumed by the   *)
(* completion of the awaited call; tasks holds, per handler, the await it  *)
(* is suspended at and the User object the awaited call was made on.       *)
(***************************************************************************)

MaxSignups == 2

Uids == 1..MaxSignups

TaskNames == {"submit", "poll", "manual", "signout"}

NoTask == [pc |-> "idle", user |-> 0]

NoUserRecord ==
    [exists |-> FALSE, role |-> "", accountStatus |-> "", emailVerified |-> FALSE]

\* the userData object of saveUserToDatabase
UserData ==
    [exists |-> TRUE, role |-> "user", accountStatus |-> "disabled", emailVerified |-> TRUE]

\* the identity createUserWithEmailAndPassword hands out next; 0 when the
\* bound is used up
NextUid ==
    IF \A u \in Uids : accounts[u].created THEN 0
    ELSE CHOOSE u \in Uids : ~accounts[u].created /\ \A w \in Uids : w < u => accounts[w].created

\* a plausible slip: the check passes for any identity the provider still has
EmailVerifiedIfPresent(u) == accounts[u].exists

\* user.emailVerified as the page's User object holds it
EmailVerified(u) == localVerified[u]

\* user.delete() succeeding: the account is gone and, if it was signed in, the
\* provider has no current user
AccountsWithout(u) == [accounts EXCEPT ![u].exists = FALSE]

CurrentWithout(u) == IF currentUser = u THEN 0 ELSE currentUser

\* the signup form is submitted with an email and a password that pass the
\* page's validation (a blank email or a weak password returns before any call)
SignupSubmit ==
    /\ signupStep = "form"
    /\ tasks["submit"].pc = "idle"
    /\ NextUid # 0
    /\ tasks' = [tasks EXCEPT !["submit"] = [pc |-> "create", user |-> 0]]
    /\ UNCHANGED <<accounts, currentUser, tempUser, localVerified, checkInterval,
                   signupStep, usersDb>>
    /\ UNCHANGED <<wifiVars, subVars, gateVars, acctVars, roleVars, cfgVars, clsVars, alertVars>>

\* createUserWithEmailAndPassword completes
CreateUserDone(ok) ==
    /\ tasks["submit"].pc = "create"
    /\ IF ok /\ NextUid # 0
       THEN /\ accounts' = [accounts EXCEPT ![NextUid] =
                               [created |-> TRUE, exists |-> TRUE, verified |-> FALSE]]
            /\ currentUser' = NextUid
            /\ tempUser' = NextUid
            /\ localVerified' = [localVerified EXCEPT ![NextUid] = FALSE]
            /\ tasks' = [tasks EXCEPT !["submit"] = [pc |-> "sendEmail", user |-> NextUid]]
       ELSE /\ tasks' = [tasks EXCEPT !["submit"] =
                           IF tempUser # 0 THEN [pc |-> "cleanup", user |-> tempUser]
                           ELSE NoTask]
            /\ UNCHANGED <<accounts, currentUser, tempUser, localVerified>>
    /\ UNCHANGED <<checkInterval, signupStep, usersDb>>
    /\ UNCHANGED <<wifiVars, subVars, gateVars, acctVars, roleVars, cfgVars, clsVars, alertVars>>

\* sendEmailVerification completes; on success the verification step is shown
\* and startAutoCheck sets the timer
SendEmailDone(ok) ==
    /\ tasks["submit"].pc = "sendEmail"
    /\ IF ok
       THEN /\ signupStep' = "verify"
            /\ checkInterval' = TRUE
            /\ tasks' = [tasks EXCEPT !["submit"] = NoTask]
       ELSE /\ tasks' = [tasks EXCEPT !["submit"] =
                           IF tempUser # 0 THEN [pc |-> "cleanup", user |-> tempUser]
                           ELSE NoTask]
            /\ UNCHANGED <<signupStep, checkInterval>>
    /\ UNCHANGED <<accounts, currentUser, tempUser, localVerified, usersDb>>
    /\ UNCHANGED <<wifiVars, subVars, gateVars, acctVars, roleVars, cfgVars, clsVars, alertVars>>

\* the submit handler's catch: tempUser.delete() completes
CleanupDone(ok) ==
    /\ tasks["submit"].pc = "cleanup"
    /\ IF ok
       THEN /\ accounts' = AccountsWithout(tasks["submit"].user)
            /\ currentUser' = CurrentWithout(tasks["submit"].user)
            /\ tempUser' = 0
       ELSE UNCHANGED <<accounts, currentUser, tempUser>>
    /\ tasks' = [tasks EXCEPT !["submit"] = NoTask]
    /\ UNCHANGED <<localVerified, checkInterval, signupStep, usersDb>>
    /\ UNCHANGED <<wifiVars, subVars, gateVars, acctVars, roleVars, cfgVars, clsVars, alertVars>>

\* the owner of the address follows the link of the verification email
VerifyEmail(u) ==
    /\ accounts[u].exists
    /\ ~accounts[u].verified
    /\ accounts' = [accounts EXCEPT ![u].verified = TRUE]
    /\ UNCHANGED <<currentUser, tempUser, localVerified, checkInterval, signupStep,
                   tasks, usersDb>>
    /\ UNCHANGED <<wifiVars, subVars, gateVars, acctVars, roleVars, cfgVars, clsVars, alertVars>>

\* the 3-second timer of startAutoCheck fires
PollTick ==
    /\ checkInterval
    /\ tasks["poll"].pc = "idle"
    /\ IF tempUser = 0
       THEN /\ checkInterval' = FALSE
            /\ UNCHANGED tasks
       ELSE /\ tasks' = [tasks EXCEPT !["poll"] = [pc |-> "reload", user |-> tempUser]]
            /\ UNCHANGED checkInterval
    /\ UNCHANGED <<accounts, currentUser, tempUser, localVerified, signupStep, usersDb>>
    /\ UNCHANGED <<wifiVars, subVars, gateVars, acctVars, roleVars, cfgVars, clsVars, alertVars>>

\* the `check verification' button
ManualCheck ==
    /\ signupStep = "verify"
    /\ tasks["manual"].pc = "idle"
    /\ tempUser # 0
    /\ tasks' = [tasks EXCEPT !["manual"] = [pc |-> "reload", user |-> tempUser]]
    /\ UNCHANGED <<accounts, currentUser, tempUser, localVerified, checkInterval,
                   signupStep, usersDb>>
    /\ UNCHANGED <<wifiVars, subVars, gateVars, acctVars, roleVars, cfgVars, clsVars, alertVars>>

\* tempUser.reload() completes in the auto-check (name = "poll") or in the
\* manual check (name = "manual"); when the page's tempUser is then verified,
\* handleVerificationSuccess runs up to the write of saveUserToDatabase.  stop
\* tells whether a failed reload carries a code that makes the auto-check stop.
ReloadDone(name, ok, stop) ==
    /\ tasks[name].pc = "reload"
    /\ ok => accounts[tasks[name].user].exists
    /\ UNCHANGED <<accounts, currentUser, tempUser, usersDb>>
    /\ localVerified' =
          IF ok THEN [localVerified EXCEPT ![tasks[name].user] =
                                              accounts[tasks[name].user].verified]
          ELSE localVerified
    /\ LET verifiedNow == ok /\ tempUser # 0 /\ EmailVerified(tempUser)'
       IN  /\ checkInterval' =
                 IF name = "poll" /\ (verifiedNow \/ (~ok /\ stop)) THEN FALSE
                 ELSE checkInterval
           /\ IF verifiedNow /\ currentUser # 0
              THEN /\ tasks' = [tasks EXCEPT ![name] = [pc |-> "save", user |-> currentUser]]
                   /\ UNCHANGED signupStep
              ELSE /\ tasks' = [tasks EXCEPT ![name] = NoTask]
                   /\ signupStep' = IF verifiedNow THEN "leaving" ELSE signupStep
    /\ UNCHANGED <<wifiVars, subVars, gateVars, acctVars, roleVars, cfgVars, clsVars, alertVars>>

\* saveUserToDatabase's set() completes inside handleVerificationSuccess
SaveUserDone(name, ok) ==
    /\ tasks[name].pc = "save"
    /\ IF ok
       THEN /\ usersDb' = [usersDb EXCEPT ![tasks[name].user] = UserData]
            /\ tasks' = [tasks EXCEPT ![name] = [pc |-> "signOut", user |-> tasks[name].user]]
            /\ UNCHANGED signupStep
       ELSE /\ tasks' = [tasks EXCEPT ![name] = NoTask]
            /\ signupStep' = "leaving"
            /\ UNCHANGED usersDb
    /\ UNCHANGED <<accounts, currentUser, tempUser, localVerified, checkInterval>>
    /\ UNCHANGED <<wifiVars, subVars, gateVars, acctVars, roleVars, cfgVars, clsVars, alertVars>>

\* auth.signOut() completes at the end of handleVerificationSuccess
SuccessSignOutDone(name, ok) ==
    /\ tasks[name].pc = "signOut"
    /\ IF ok
       THEN /\ currentUser' = 0
            /\ signupStep' = "success"
       ELSE /\ signupStep' = "leaving"
            /\ UNCHANGED currentUser
    /\ tasks' = [tasks EXCEPT ![name] = NoTask]
    /\ UNCHANGED <<accounts, tempUser, localVerified, checkInterval, usersDb>>
    /\ UNCHANGED <<wifiVars, subVars, gateVars, acctVars, roleVars, cfgVars, clsVars, alertVars>>

\* the sign-out button of the verification step
SignOutClick ==
    /\ signupStep = "verify"
    /\ tasks["signout"].pc = "idle"
    /\ checkInterval' = FALSE
    /\ tasks' = [tasks EXCEPT !["signout"] =
                    IF tempUser # 0 /\ ~EmailVerified(tempUser)
                    THEN [pc |-> "delete", user |-> tempUser]
                    ELSE [pc |-> "signOut", user |-> 0]]
    /\ UNCHANGED <<accounts, currentUser, tempUser, localVerified, signupStep, usersDb>>
    /\ UNCHANGED <<wifiVars, subVars, gateVars, acctVars, roleVars, cfgVars, clsVars, alertVars>>

\* tempUser.delete() completes in the sign-out handler
SignOutDeleteDone(ok) ==
    /\ tasks["signout"].pc = "delete"
    /\ IF ok
       THEN /\ accounts' = AccountsWithout(tasks["signout"].user)
            /\ currentUser' = CurrentWithout(tasks["signout"].user)
            /\ tasks' = [tasks EXCEPT !["signout"] = [pc |-> "signOut", user |-> 0]]
       ELSE /\ tasks' = [tasks EXCEPT !["signout"] = NoTask]
            /\ UNCHANGED <<accounts, currentUser>>
    /\ UNCHANGED <<tempUser, localVerified, checkInterval, signupStep, usersDb>>
    /\ UNCHANGED <<wifiVars, subVars, gateVars, acctVars, roleVars, cfgVars, clsVars, alertVars>>

\* auth.signOut() completes in the sign-out handler, which then shows the form
\* again and forgets tempUser
SignOutDone(ok) ==
    /\ tasks["signout"].pc = "signOut"
    /\ IF ok
       THEN /\ currentUser' = 0
            /\ signupStep' = "form"
            /\ tempUser' = 0
       ELSE UNCHANGED <<currentUser, signupStep, tempUser>>
    /\ tasks' = [tasks EXCEPT !["signout"] = NoTask]
    /\ UNCHANGED <<accounts, localVerified, checkInterval, usersDb>>
    /\ UNCHANGED <<wifiVars, subVars, gateVars, acctVars, roleVars, cfgVars, clsVars, alertVars>>

SignupPage == <<"html", "signup.html">>

\* the signup page has loaded: nobody signed in, no account, no record
InitSignup ==
    /\ accounts = [u \in Uids |-> [created |-> FALSE, exists |-> FALSE, verified |-> FALSE]]
    /\ currentUser = 0
    /\ tempUser = 0
    /\ localVerified = [u \in Uids |-> FALSE]
    /\ checkInterval = FALSE
    /\ signupStep = "form"
    /\ tasks = [n \in TaskNames |-> NoTask]
    /\ usersDb = [u \in Uids |-> NoUserRecord]
    /\ userSession = NoSession
    /\ currentPage = SignupPage /\ href = <<>> /\ gatePc = "allowed"
    /\ AcctIdle
    /\ RoleIdle
    /\ CfgIdle
    /\ WifiIdle
    /\ SubIdle
    /\ ClsIdle
    /\ AlertsIdle

NextSignup ==
    \/ SignupSubmit
    \/ \E ok \in BOOLEAN : CreateUserDone(ok)
    \/ \E ok \in BOOLEAN : SendEmailDone(ok)
    \/ \E ok \in BOOLEAN : CleanupDone(ok)
    \/ \E u \in Uids : VerifyEmail(u)
    \/ PollTick
    \/ ManualCheck
    \/ \E name \in {"poll", "manual"}, ok \in BOOLEAN, stop \in BOOLEAN :
          ReloadDone(name, ok, stop)
    \/ \E name \in {"poll", "manual"}, ok \in BOOLEAN : SaveUserDone(name, ok)
    \/ \E name \in {"poll", "manual"}, ok \in BOOLEAN : SuccessSignOutDone(name, ok)
    \/ SignOutClick
    \/ \E ok \in BOOLEAN : SignOutDeleteDone(ok)
    \/ \E ok \in BOOLEAN : SignOutDone(ok)

SpecSignup == InitSignup /\ [][NextSignup]_vars

\* C23: a record users/{uid} exists only for an identity whose email the
\* provider has reported verified to the page, and it carries role 'user' and
\* accountStatus 'disabled'; this holds in every interleaving of the auto-check
\* poll, the manual check and the sign-out button.
C23_RecordOnlyAfterVerified ==
    usersDb # <<>> =>
        \A u \in Uids :
            usersDb[u].exists =>
                /\ accounts[u].verified
                /\ localVerified[u]
                /\ usersDb[u].role = "user"
                /\ usersDb[u].accountStatus = "disabled"

\* the record of a verified identity was written while the sign-out button's
\* handler was deleting the account
C23_Witness ==
    /\ usersDb # <<>>
    /\ \E u \in Uids : usersDb[u].exists /\ ~accounts[u].exists

(***************************************************************************)
(* WiFi panel of the system configuration page                             *)
(*                                                                         *)
(* wifiStore is system/wifi as the page's client holds it: a write of the  *)
(* ESP32 reaches it together with the `value' event it raises.             *)
(***************************************************************************)

WifiNames == {"netA", "netB"}

\* the `value' listener of watchWifiConnectionStatus: the timer it leaves
TimerAfterEvent(w, timer) == IF w.connected = TRUE THEN "" ELSE timer

\* the `value' listener of watchWifiConnectionStatus: the banner it sets
BannerAfterEvent(w) == IF w.connected = TRUE THEN "connected" ELSE "disconnected"

\* the first `value' event after watchWifiConnectionStatus attached the listener
WifiStatusLoaded ==
    /\ wifiStore # <<>>
    /\ wifiBanner = "none"
    /\ wifiBanner' = BannerAfterEvent(wifiStore)
    /\ wifiConfirmTimer' = TimerAfterEvent(wifiStore, wifiConfirmTimer)
    /\ UNCHANGED <<wifiStore, wifiForm, wifiAttempt>>
    /\ UNCHANGED <<signupVars, subVars, gateVars, acctVars, roleVars, cfgVars, clsVars, alertVars>>

\* the administrator types into the inputs wifiSSID and wifiPassword
TypeWifi(ssid, password) ==
    /\ wifiStore # <<>>
    /\ wifiForm' = [ssid |-> ssid, password |-> password]
    /\ UNCHANGED <<wifiStore, wifiConfirmTimer, wifiBanner, wifiAttempt>>
    /\ UNCHANGED <<signupVars, subVars, gateVars, acctVars, roleVars, cfgVars, clsVars, alertVars>>

\* saveWiFiConfig; confirmed tells whether the confirm modal is accepted,
\* writeOk whether the update succeeds.  The update raises the listener's
\* event at once, before its completion starts the confirmation timer.
saveWiFiConfig(confirmed, writeOk) ==
    /\ wifiStore # <<>>
    /\ IF wifiForm.ssid = "" \/ ~confirmed
       THEN UNCHANGED wifiVars
       ELSE LET written == [wifiStore EXCEPT !.ssid = wifiForm.ssid,
                                             !.password = wifiForm.password]
            IN  IF writeOk
                THEN /\ wifiStore' = written
                     /\ wifiForm' = [wifiForm EXCEPT !.password = ""]
                     /\ wifiConfirmTimer' = wifiForm.ssid
                     /\ wifiBanner' = BannerAfterEvent(written)
                     /\ wifiAttempt' = "awaiting"
                ELSE /\ wifiConfirmTimer' = TimerAfterEvent(written, wifiConfirmTimer)
                     /\ wifiBanner' = "disconnected"
                     /\ UNCHANGED <<wifiStore, wifiForm, wifiAttempt>>
    /\ UNCHANGED <<signupVars, subVars, gateVars, acctVars, roleVars, cfgVars, clsVars, alertVars>>

\* the ESP32 has tried the stored network and writes system/wifi/connected;
\* the listener runs on the event
EspReports(connected) ==
    /\ wifiStore # <<>>
    /\ wifiStore.ssid # ""
    /\ wifiStore.connected # connected \/ wifiAttempt = "awaiting"
    /\ wifiStore' = [wifiStore EXCEPT !.connected = connected]
    /\ wifiConfirmTimer' = TimerAfterEvent(wifiStore', wifiConfirmTimer)
    /\ wifiBanner' = BannerAfterEvent(wifiStore')
    /\ wifiAttempt' = IF connected /\ wifiAttempt = "awaiting" THEN "confirmed"
                      ELSE wifiAttempt
    /\ UNCHANGED wifiForm
    /\ UNCHANGED <<signupVars, subVars, gateVars, acctVars, roleVars, cfgVars, clsVars, alertVars>>

\* the confirmation timer fires: system/wifi/connected is read once more, and
\* handleWifiConnectionFailure clears the credentials unless it is true
WifiConfirmTimeout ==
    /\ wifiConfirmTimer # ""
    /\ wifiConfirmTimer' = ""
    /\ IF wifiStore.connected = TRUE
       THEN UNCHANGED <<wifiStore, wifiForm, wifiBanner>>
       ELSE /\ wifiStore' = [wifiStore EXCEPT !.ssid = "", !.password = ""]
            /\ wifiForm' = [ssid |-> "", password |-> ""]
            /\ wifiBanner' = "disconnected"
    /\ UNCHANGED wifiAttempt
    /\ UNCHANGED <<signupVars, subVars, gateVars, acctVars, roleVars, cfgVars, clsVars, alertVars>>

\* the configuration page is open on its WiFi panel: the ESP32 has no
\* network, or has the previous one and has reported on it
InitWifi ==
    /\ wifiStore \in
          { [ssid |-> "", password |-> "", connected |-> FALSE] }
            \cup { [ssid |-> "old", password |-> "pw", connected |-> c] : c \in BOOLEAN }
    /\ wifiConfirmTimer = ""
    /\ wifiBanner = "none"
    /\ wifiForm = [ssid |-> wifiStore.ssid, password |-> ""]
    /\ wifiAttempt = "none"
    /\ userSession = SessionOf("admin")
    /\ currentPage = ConfigPage /\ href = <<>> /\ gatePc = "allowed"
    /\ AcctIdle
    /\ RoleIdle
    /\ CfgIdle
    /\ SignupIdle
    /\ SubIdle
    /\ ClsIdle
    /\ AlertsIdle

NextWifi ==
    \/ WifiStatusLoaded
    \/ \E ssid \in WifiNames \cup {""}, password \in {"", "pw"} : TypeWifi(ssid, password)
    \/ \E confirmed \in BOOLEAN, writeOk \in BOOLEAN : saveWiFiConfig(confirmed, writeOk)
    \/ \E connected \in BOOLEAN : EspReports(connected)
    \/ WifiConfirmTimeout

SpecWifi == InitWifi /\ [][NextWifi]_vars

\* C24: once the confirmation window of a save is over (no timer pending) and
\* the ESP32 has not reported connected = true for the saved network, the
\* stored SSID and password are cleared; and once the ESP32 has confirmed the
\* saved network, they are not cleared.  This covers a save made while
\* connected was still true from the previous network.
C24_ClearedIffUnconfirmed ==
    wifiStore # <<>> =>
        /\ (wifiAttempt = "awaiting" /\ wifiConfirmTimer = "") =>
              (wifiStore.ssid = "" /\ wifiStore.password = "")
        /\ wifiAttempt = "confirmed" => wifiStore.ssid # ""

(***************************************************************************)
(* The three threshold classifiers                                         *)
(***************************************************************************)

\* getStatusClass of the dashboard, for a defined value and threshold
getStatusClass(value, threshold) ==
    IF value < threshold.warnMin \/ value > threshold.warnMax THEN "critical"
    ELSE IF value < threshold.safeMin \/ value > threshold.safeMax THEN "caution"
    ELSE "safe"

\* getColorClass of the history table, for a defined value and the
\* parameter's threshold
getColorClass(threshold, value) ==
    IF value >= threshold.safeMin /\ value <= threshold.safeMax THEN "status-safe"
    ELSE IF (value >= threshold.warnMin /\ value < threshold.safeMin)
              \/ (value > threshold.safeMax /\ value <= threshold.warnMax)
         THEN "status-caution"
    ELSE IF value < threshold.warnMin \/ value > threshold.warnMax THEN "status-critical"
    ELSE ""

\* the Threshold Records saveThresholds accepts, from inputs holding numbers
AcceptedRecords ==
    { RecordOf(Parsed(f)) :
        f \in { g \in [safeMin : { Numeral(n) : n \in 0..MaxLevel },
                       safeMax : { Numeral(n) : n \in 0..MaxLevel },
                       warnMin : { Numeral(n) : n \in 0..MaxLevel },
                       warnMax : { Numeral(n) : n \in 0..MaxLevel }] :
                  ValidationError(Parsed(g)) = "none" } }

NotClassified == [engine |-> "none", dashboard |-> "none", history |-> "none"]

\* the band a classifier's answer stands for
BandOf(class) ==
    CASE class \in {"critical", "status-critical"} -> "critical"
      [] class \in {"warning", "caution", "status-caution"} -> "warning"
      [] class \in {"safe", "status-safe"} -> "safe"
      [] OTHER -> "unknown"

\* the same value of the same parameter is classified by the alert engine, the
\* dashboard and the history table
ClassifyThrice ==
    /\ clsOut = NotClassified
    /\ clsOut' = [engine    |-> Classify(clsT, clsV),
                  dashboard |-> getStatusClass(clsV, clsT),
                  history   |-> getColorClass(clsT, clsV)]
    /\ UNCHANGED <<clsT, clsV, gateVars, alertVars, pageVars>>

\* the next reading of the parameter arrives
NextReading ==
    /\ clsOut # NotClassified
    /\ clsV' \in 0..(MaxLevel + 1)
    /\ clsOut' = NotClassified
    /\ UNCHANGED <<clsT, gateVars, alertVars, pageVars>>

InitAgree ==
    /\ clsT \in AcceptedRecords
    /\ clsV \in 0..MaxLevel
    /\ clsOut = NotClassified
    /\ userSession = NoSession /\ currentPage = IndexPage
    /\ href = <<>> /\ gatePc = "allowed"
    /\ PagesIdle
    /\ AlertsIdle

NextAgree == ClassifyThrice \/ NextReading

SpecAgree == InitAgree /\ [][NextAgree]_vars

\* C25: for every Threshold Record saveThresholds accepts and every value,
\* checkThresholds, getStatusClass and getColorClass put the value in the same
\* band.
C25_ClassifiersAgree ==
    clsOut # NotClassified =>
        /\ BandOf(clsOut.engine) = BandOf(clsOut.dashboard)
        /\ BandOf(clsOut.engine) = BandOf(clsOut.history)

(***************************************************************************)
(* Alert engine: notifications and resolution kinds                        *)
(***************************************************************************)

\* C26: for an alert this page's engine created, triggerAlertNotification is
\* called at most once: the set-completion callback of createOrUpdateAlert and
\* the child_added listener never both dispatch for the same alert id.
C26_NotifiedAtMostOnce ==
    \A k \in DOMAIN notified :
        notified[k].set >= 1 => notified[k].set + notified[k].added <= 1

\* the number of resolution kinds a History record carries
ResolutionKinds(h) ==
    (IF h.acknowledged THEN 1 ELSE 0) + (IF h.dismissed THEN 1 ELSE 0)
      + (IF h.autoResolved THEN 1 ELSE 0)

\* C27: every History record has exactly one of acknowledged, dismissed and
\* autoResolved true, so that createAlertCard, which tests dismissed, then
\* acknowledged, then autoResolved, shows an auto-resolved record as
\* Auto-Resolved.
C27_OneResolutionKind ==
    \A i \in 1..Len(history) : ResolutionKinds(history[i]) = 1

\* C28: on every path checkAuth treats as public, the provider reconciliation
\* of checkFirebaseAuth does not navigate to the sign-in page, whatever Session
\* it clears.
C28_PublicSetsAgree ==
    [][ (lastOp' = "checkFirebaseAuth" /\ Matches(currentPage, publicPages)) =>
            (gatePc' # "redirected" /\ href' = href) ]_vars

\* C29: the page's activeAlerts list catches up with alerts/active: once the
\* settle timer has fired and every write and every change-feed event,
\* the once('value') snapshot included, has been handled, every record of
\* alerts/active is in activeAlerts, whenever it was added.
C29_ActiveAlertsMirrorsStore ==
    (Quiescent /\ initialLoadDone) =>
        \A k \in DOMAIN active : HasId(activeAlerts, k)

(***************************************************************************)
(* The sensors subscription, with every delivery observed                  *)
(***************************************************************************)

MaxDeliveries == 3

\* a snapshot of the sensors subscription is delivered to the handler, and the
\* delivery is recorded
SensorsDelivered(data) ==
    /\ delivered.n < MaxDeliveries
    /\ SensorsHandler(data)
    /\ delivered' = [n |-> delivered.n + 1, data |-> data]
    /\ UNCHANGED <<acctVars, roleVars, cfgVars, signupVars, wifiVars>>

\* the alerts page opens on an empty alerts/active
InitSensors ==
    /\ PageOpened(<<>>, MonitoredParams)
    /\ userSession = NoSession /\ currentPage = IndexPage
    /\ href = <<>> /\ gatePc = "allowed"
    /\ PagesIdle
    /\ ClsIdle

NextSensors ==
    \/ \E data \in Readings : SensorsDelivered(data)
    \/ \E ok \in BOOLEAN : Complete(ok)
    \/ Deliver
    \/ SettleTimer

SpecSensors == InitSensors /\ [][NextSensors]_vars

\* parameter p of reading data is outside its safe band
OutOfBand(data, p) ==
    /\ p \in DOMAIN data.vals
    /\ p \in DOMAIN thresholds
    /\ Classify(thresholds[p], data.vals[p]) # "safe"

\* the reading is the one classified last
SameAsClassified(data) == previousReadings.set /\ data.vals = previousReadings.vals

\* the write outbox'[i], issued in this step, creates or updates the active
\* alert of parameter p
AlertWriteFor(i, p) ==
    \/ outbox'[i].op = "create" /\ outbox'[i].rec.parameter = p
    \/ /\ outbox'[i].op = "update"
       /\ \E j \in 1..Len(activeAlerts) :
             activeAlerts[j].id = outbox'[i].id /\ activeAlerts[j].parameter = p

\* C30: every delivery of the sensors subscription whose reading has a
\* parameter outside its safe band, and is not the reading classified last,
\* issues the write that creates or updates the active alert of each such
\* parameter; the first delivery after the page loaded and readings without a
\* lastUpdate field included.
C30_OutOfBandReadingAlerts ==
    [][ (delivered'.n # delivered.n /\ ~SameAsClassified(delivered'.data)) =>
            \A p \in AllParams :
                OutOfBand(delivered'.data, p) =>
                    \E i \in (Len(outbox) + 1)..Len(outbox') : AlertWriteFor(i, p) ]_vars

====
